---------------------------- MODULE Spec2Model ----------------------------
(***************************************************************************)
(* Batch contrast audit of UI colour themes.                               *)
(*                                                                         *)
(* The module models check_all_themes in its two variants                  *)
(*   "early": src/check_contrast.py          (dominant colour vs. white)   *)
(*   "later": src/scripts/check_contrast.py  (border/interior estimator,   *)
(*            classification store, raw screenshots)                       *)
(* as one sequential process whose position is pc, together with the files *)
(* it writes and the display it captures (Spec).  The functions it calls   *)
(* and the other entry points are modelled on their own inputs:            *)
(* capture_region (SpecCapture), get_status (SpecStatus), contrast_ratio   *)
(* (SpecContrast), find_bar_boxes (SpecBoxes), estimate_bg_and_text        *)
(* (SpecEstimate), write_theme (SpecTheme), build_table_image (SpecTable), *)
(* generate_full_table (SpecFull), the flood fill of _label_components     *)
(* (SpecLabel), the channel handling of estimate_bg_and_text (SpecAlpha),  *)
(* the classification loader of color_picker/base.py (SpecLoad),           *)
(* generate_bright_version (SpecBright) and the handlers of the picker     *)
(* (SpecPicker).  SpecRun is Spec with the loop scheduled, for             *)
(* termination.                                                            *)
(*                                                                         *)
(* Numbers: a luminance is an integer in 0..10000 (1.0 = 10000) and a      *)
(* contrast ratio is an integer number of thousandths (1.0 = 1000).        *)
(***************************************************************************)
EXTENDS Integers, Sequences, FiniteSets, TLC

(***************************************************************************)
(* Bounds of the model.                                                    *)
(***************************************************************************)
MaxThemes == 6

\* largest contrast ratio handed to get_status, in thousandths
MaxRatio == 6000

\* most calls of write_theme in a row with one colour
MaxCalls == 3

\* longest result list and image list handed to build_table_image
MaxRows == 2

\* most records of the classification store that generate_full_table reads
MaxRecords == 2

\* rows of the masks handed to the flood fill
MaskRows == 3

(***************************************************************************)
(* Program constants.                                                      *)
(***************************************************************************)
BATCH_SIZE == 5

TEXT_COLOR == <<255, 255, 255>>

\* ratio = -1 in the except branch of the early variant, in thousandths
SentinelRatio == -1000

SentinelColor == <<0, 0, 0>>

(***************************************************************************)
(* Luminance / contrast math.                                              *)
(***************************************************************************)
\* srgb_to_linear(c / 255) * 10000, rounded down, for c = 0, 1, ..., 255:
\* c / 255 / 12.92 up to c = 10 (10 / 255 <= 0.03928 < 11 / 255), and
\* ((c / 255 + 0.055) / 1.055) ** 2.4 above
LinearTable ==
    <<
      0, 3, 6, 9, 12, 15, 18, 21, 24, 27, 30, 33,
      36, 40, 43, 47, 51, 56, 60, 65, 69, 74, 80, 85,
      91, 97, 103, 109, 116, 122, 129, 137, 144, 152, 159, 168,
      176, 185, 193, 202, 212, 221, 231, 241, 251, 262, 273, 284,
      295, 307, 318, 331, 343, 356, 368, 382, 395, 409, 423, 437,
      451, 466, 481, 497, 512, 528, 544, 561, 578, 595, 612, 630,
      648, 666, 684, 703, 722, 742, 761, 781, 802, 822, 843, 865,
      886, 908, 930, 953, 975, 998, 1022, 1046, 1070, 1094, 1119, 1144,
      1169, 1195, 1221, 1247, 1274, 1301, 1328, 1356, 1384, 1412, 1441, 1470,
      1499, 1529, 1559, 1589, 1620, 1651, 1682, 1714, 1746, 1778, 1811, 1844,
      1878, 1912, 1946, 1980, 2015, 2050, 2086, 2122, 2158, 2195, 2232, 2269,
      2307, 2345, 2383, 2422, 2462, 2501, 2541, 2581, 2622, 2663, 2704, 2746,
      2788, 2831, 2874, 2917, 2961, 3005, 3049, 3094, 3139, 3185, 3231, 3277,
      3324, 3371, 3419, 3467, 3515, 3564, 3613, 3662, 3712, 3762, 3813, 3864,
      3915, 3967, 4019, 4072, 4125, 4178, 4232, 4286, 4341, 4396, 4452, 4507,
      4564, 4620, 4677, 4735, 4793, 4851, 4910, 4969, 5028, 5088, 5149, 5209,
      5271, 5332, 5394, 5457, 5520, 5583, 5647, 5711, 5775, 5840, 5906, 5972,
      6038, 6104, 6172, 6239, 6307, 6375, 6444, 6514, 6583, 6653, 6724, 6795,
      6866, 6938, 7011, 7083, 7156, 7230, 7304, 7379, 7454, 7529, 7605, 7681,
      7758, 7835, 7912, 7991, 8069, 8148, 8227, 8307, 8387, 8468, 8549, 8631,
      8713, 8796, 8879, 8962, 9046, 9130, 9215, 9301, 9386, 9473, 9559, 9646,
      9734, 9822, 9911, 10000
    >>

srgb_to_linear(c) == LinearTable[c + 1]

\* np.clip(rgb255 / 255.0, 0.0, 1.0), on the 0..255 scale
Clip255(c) == IF c < 0 THEN 0 ELSE IF c > 255 THEN 255 ELSE c

\* contrast_rows.py: relative_luminance(rgb255)
relative_luminance(rgb) ==
    (2126 * srgb_to_linear(Clip255(rgb[1]))
       + 7152 * srgb_to_linear(Clip255(rgb[2]))
       + 722 * srgb_to_linear(Clip255(rgb[3]))) \div 10000

\* mutant: the two luminances are not ordered before the division
contrast_ratio_unordered(a, b) ==
    ((relative_luminance(a) + 500) * 1000) \div (relative_luminance(b) + 500)

\* contrast_rows.py: contrast_ratio(rgb_a, rgb_b)
contrast_ratio(a, b) ==
    LET la == relative_luminance(a)
        lb == relative_luminance(b)
        hi == IF la >= lb THEN la ELSE lb
        lo == IF la >= lb THEN lb ELSE la
    IN  ((hi + 500) * 1000) \div (lo + 500)

\* check_contrast.py (early): relative_luminance(r, g, b)
relative_luminance_tuple(r, g, b) ==
    (2126 * srgb_to_linear(r) + 7152 * srgb_to_linear(g)
       + 722 * srgb_to_linear(b)) \div 10000

\* check_contrast.py (early): contrast_ratio(color1, color2)
contrast_ratio_tuple(color1, color2) ==
    LET l1 == relative_luminance_tuple(color1[1], color1[2], color1[3])
        l2 == relative_luminance_tuple(color2[1], color2[2], color2[3])
        lighter == IF l1 >= l2 THEN l1 ELSE l2
        darker == IF l1 <= l2 THEN l1 ELSE l2
    IN  ((lighter + 500) * 1000) \div (darker + 500)

\* A hex colour string is a record: hash tells whether it starts with "#",
\* digits are the values of its six hexadecimal digits.
\* int(hex_color[i:i+2], 16) for i in (0, 2, 4), after lstrip('#')
HexChannels(hex_color) ==
    LET d == hex_color.digits
    IN  <<16 * d[1] + d[2], 16 * d[3] + d[4], 16 * d[5] + d[6]>>

\* color_picker/base.py: relative_luminance(hex_color)
relative_luminance_hex(hex_color) ==
    LET c == HexChannels(hex_color)
    IN  (2126 * srgb_to_linear(c[1]) + 7152 * srgb_to_linear(c[2])
           + 722 * srgb_to_linear(c[3])) \div 10000

\* color_picker/base.py: contrast_ratio(color1, color2)
contrast_ratio_hex(color1, color2) ==
    LET l1 == relative_luminance_hex(color1)
        l2 == relative_luminance_hex(color2)
        lighter == IF l1 >= l2 THEN l1 ELSE l2
        darker == IF l1 >= l2 THEN l2 ELSE l1
    IN  ((lighter + 500) * 1000) \div (darker + 500)

\* mutant: the thresholds are exclusive
get_status_exclusive(ratio) ==
    IF ratio > 2000 THEN "GOOD" ELSE IF ratio > 1500 THEN "MID" ELSE "BAD"

\* src/scripts/check_contrast.py (GOOD/MID/BAD scale)
get_status(ratio) ==
    IF ratio >= 2000 THEN "GOOD" ELSE IF ratio >= 1500 THEN "MID" ELSE "BAD"

\* src/check_contrast.py (WCAG scale)
get_status_wcag(ratio) ==
    IF ratio >= 4500 THEN "OK" ELSE IF ratio >= 3000 THEN "LOW" ELSE "BAD"

(***************************************************************************)
(* Bar detector: the filter and the sort of find_bar_boxes, applied to the *)
(* bounding boxes of the bright connected components of an image.          *)
(***************************************************************************)
BoxW(b) == b.x1 - b.x0

BoxH(b) == b.y1 - b.y0

BoxArea(b) == BoxW(b) * BoxH(b)

Max2(a, b) == IF a >= b THEN a ELSE b

Min2(a, b) == IF a <= b THEN a ELSE b

\* mutant: the height filter is missing
KeepBoxAnyHeight(b) ==
    /\ BoxArea(b) >= 2000
    /\ 2 * BoxW(b) >= 5 * Max2(1, BoxH(b))

\* b.area < 2000, b.w / max(1, b.h) < 2.5 and b.h < 15 are the rejections
KeepBox(b) ==
    /\ BoxArea(b) >= 2000
    /\ 2 * BoxW(b) >= 5 * Max2(1, BoxH(b))
    /\ BoxH(b) >= 15

RECURSIVE FilterBoxes(_)
FilterBoxes(s) ==
    IF s = <<>> THEN <<>>
    ELSE IF KeepBox(Head(s)) THEN <<Head(s)>> \o FilterBoxes(Tail(s))
         ELSE FilterBoxes(Tail(s))

\* stable insertion by y0, as list.sort(key=lambda bb: bb.y0)
RECURSIVE InsertBox(_, _)
InsertBox(b, s) ==
    IF s = <<>> THEN <<b>>
    ELSE IF b.y0 < Head(s).y0 THEN <<b>> \o s
         ELSE <<Head(s)>> \o InsertBox(b, Tail(s))

RECURSIVE SortBoxes(_)
SortBoxes(s) ==
    IF s = <<>> THEN <<>>
    ELSE InsertBox(s[Len(s)], SortBoxes(SubSeq(s, 1, Len(s) - 1)))

find_bar_boxes(img) == SortBoxes(FilterBoxes(img.comps))

(***************************************************************************)
(* Captured images.  An image is described by its pixel mode, its size,    *)
(* its ground colour bgpix, a centred patch of ph rows and pw columns in   *)
(* the colour fgpix (the text), and the bounding boxes of its bright       *)
(* components.  shows is the theme colour the display rendered when it was *)
(* captured.                                                               *)
(***************************************************************************)
Channels(img) ==
    CASE img.mode = "RGB"  -> 3
      [] img.mode = "RGBA" -> 4
      [] img.mode = "L"    -> 1

\* a green bar with white text, 8% x 3.33% of a 1920x1080 display
ImgBar ==
    [mode |-> "RGB", h |-> 36, w |-> 154,
     bgpix |-> <<0, 130, 0>>, fgpix |-> <<255, 255, 255>>,
     ph |-> 12, pw |-> 60,
     comps |-> << [x0 |-> 0, y0 |-> 0, x1 |-> 154, y1 |-> 36] >>]

\* a uniformly dark capture: no pixel is brighter than the mask threshold
ImgDark ==
    [mode |-> "RGB", h |-> 36, w |-> 154,
     bgpix |-> <<30, 30, 30>>, fgpix |-> <<30, 30, 30>>,
     ph |-> 12, pw |-> 60,
     comps |-> <<>>]

\* a white bar with dark text and an alpha channel
ImgAlpha ==
    [mode |-> "RGBA", h |-> 37, w |-> 154,
     bgpix |-> <<255, 255, 255>>, fgpix |-> <<40, 40, 40>>,
     ph |-> 12, pw |-> 60,
     comps |-> << [x0 |-> 0, y0 |-> 0, x1 |-> 154, y1 |-> 37] >>]

\* a greyscale capture: the pixel array has no channel axis
ImgGrey ==
    [mode |-> "L", h |-> 37, w |-> 154,
     bgpix |-> <<130, 130, 130>>, fgpix |-> <<255, 255, 255>>,
     ph |-> 12, pw |-> 60,
     comps |-> << [x0 |-> 0, y0 |-> 0, x1 |-> 154, y1 |-> 37] >>]

CaptureImages == {ImgBar, ImgDark, ImgGrey}

(***************************************************************************)
(* Early variant: get_dominant_color.  arr.reshape(-1, 3) raises unless    *)
(* the number of array elements is a multiple of 3; the colour is rounded  *)
(* down to a multiple of 10 per channel.                                   *)
(***************************************************************************)
DominantRaises(img) == (img.h * img.w * Channels(img)) % 3 # 0

get_dominant_color(img) ==
    [i \in 1..3 |-> (img.bgpix[i] \div 10) * 10]

(***************************************************************************)
(* Later variant: estimate_bg_and_text.                                    *)
(***************************************************************************)
ClipV(h) == Max2(1, h \div 10)

ClippedH(h) == Max2(0, h - 2 * ClipV(h))

BorderT(h) == Max2(1, (12 * ClippedH(h)) \div 100)

BorderL(w) == Max2(1, (6 * w) \div 100)

InnerCount(img) ==
    Max2(0, ClippedH(img.h) - 2 * BorderT(img.h))
      * Max2(0, img.w - 2 * BorderL(img.w))

\* A colour the estimator returns is a median of float pixel values, which
\* can fall halfway between two channel values: it is given in halves
\* (255.0 is 510).  The median of no pixels is NaN.
Twice(rgb) == [i \in 1..3 |-> 2 * rgb[i]]

NaN == <<>>

\* np.median over nB pixels of colour b and nF pixels of colour f
Median2(nB, nF, b, f) ==
    IF nB + nF = 0 THEN NaN
    ELSE IF nB > nF THEN Twice(b)
    ELSE IF nF > nB THEN Twice(f)
    ELSE [i \in 1..3 |-> b[i] + f[i]]

\* the patch is centred in the region
PatchTop(img) == (img.h - img.ph) \div 2

PatchLeft(img) == (img.w - img.pw) \div 2

Overlap(a0, a1, b0, b1) == Max2(0, Min2(a1, b1) - Max2(a0, b0))

\* pixels, and pixels of the patch, in rows r0 .. r1 - 1 and columns
\* c0 .. c1 - 1 of the region
PixelsIn(r0, r1, c0, c1) == Max2(0, r1 - r0) * Max2(0, c1 - c0)

FgIn(img, r0, r1, c0, c1) ==
    Overlap(r0, r1, PatchTop(img), PatchTop(img) + img.ph)
      * Overlap(c0, c1, PatchLeft(img), PatchLeft(img) + img.pw)

\* border = concatenate(row_rgb[:bt], row_rgb[-bt:], row_rgb[:, :bl],
\* row_rgb[:, -bl:]) of the clipped region: how many pixels, how many of
\* them of the patch (a pixel in two bands counts twice)
BorderSample(img) ==
    LET cv == ClipV(img.h)
        h == ClippedH(img.h)
        bt == Min2(BorderT(img.h), h)
        bl == Min2(BorderL(img.w), img.w)
        w == img.w
    IN  [n |-> PixelsIn(cv, cv + bt, 0, w) + PixelsIn(cv + h - bt, cv + h, 0, w)
                 + PixelsIn(cv, cv + h, 0, bl) + PixelsIn(cv, cv + h, w - bl, w),
         nF |-> FgIn(img, cv, cv + bt, 0, w) + FgIn(img, cv + h - bt, cv + h, 0, w)
                 + FgIn(img, cv, cv + h, 0, bl) + FgIn(img, cv, cv + h, w - bl, w)]

\* inner = row_rgb[bt:h - bt, bl:w - bl]: how many of its pixels are of the
\* patch
InnerFg(img) ==
    LET cv == ClipV(img.h)
        h == ClippedH(img.h)
        bt == BorderT(img.h)
        bl == BorderL(img.w)
    IN  FgIn(img, cv + bt, cv + h - bt, bl, img.w - bl)

\* the square of np.linalg.norm(x - bg), in halves
Dist2(x2, bg2) ==
    (x2[1] - bg2[1]) * (x2[1] - bg2[1]) + (x2[2] - bg2[2]) * (x2[2] - bg2[2])
      + (x2[3] - bg2[3]) * (x2[3] - bg2[3])

\* d > 25.0
Far(rgb, bg2) == Dist2(Twice(rgb), bg2) > 4 * 25 * 25

\* mutant: every interior pixel is taken as a text pixel
TextSamplesAll(img, bg2) ==
    {[nB |-> InnerCount(img) - InnerFg(img), nF |-> InnerFg(img),
      fallback |-> FALSE]}

\* text_pixels: how many interior pixels of the ground colour and of the
\* patch colour the text median is taken over.  The interior pixels with
\* d > 25.0 are taken if they are at least 50; otherwise the last
\* max(50, n // 200) pixels of argsort(d), which are all n pixels when
\* there are no more.  Pixels at equal distance are ordered by argsort as it
\* happens, so any split among them is possible.
TextSamples(img, bg2) ==
    LET n == InnerCount(img)
        nF == InnerFg(img)
        nB == n - nF
        farB == IF bg2 # NaN /\ Far(img.bgpix, bg2) THEN nB ELSE 0
        farF == IF bg2 # NaN /\ Far(img.fgpix, bg2) THEN nF ELSE 0
        k == Min2(Max2(50, n \div 200), n)
    IN  IF farB + farF >= 50
        THEN {[nB |-> farB, nF |-> farF, fallback |-> FALSE]}
        ELSE IF n = 0
        THEN {[nB |-> 0, nF |-> 0, fallback |-> TRUE]}
        ELSE LET dB == Dist2(Twice(img.bgpix), bg2)
                 dF == Dist2(Twice(img.fgpix), bg2)
             IN  IF dF > dB
                 THEN {[nB |-> k - Min2(nF, k), nF |-> Min2(nF, k), fallback |-> TRUE]}
                 ELSE IF dB > dF
                 THEN {[nB |-> Min2(nB, k), nF |-> k - Min2(nB, k), fallback |-> TRUE]}
                 ELSE {[nB |-> k - f, nF |-> f, fallback |-> TRUE] :
                          f \in {g \in 0..k : g <= nF /\ k - g <= nB}}

\* the results estimate_bg_and_text can return for a region with 3 or 4
\* channels: bg, text, and the text pixels the median was taken over
estimate_bg_and_text(img) ==
    LET b == BorderSample(img)
        bg2 == Median2(b.n - b.nF, b.nF, img.bgpix, img.fgpix)
    IN  {[bg |-> bg2,
          text |-> Median2(s.nB, s.nF, img.bgpix, img.fgpix),
          sample |-> s.nB + s.nF,
          fallback |-> s.fallback] : s \in TextSamples(img, bg2)}

\* [int(x) for x in bg]: whole medians, as those of the captures here, are
\* kept as they are
IntColour(c2) == [i \in 1..3 |-> c2[i] \div 2]

\* h, w, c = row_rgba.shape fails without a channel axis; c not in {3, 4}
\* is rejected; an empty interior gives a NaN median and int(NaN) raises
EstimateRaises(img) ==
    \/ Channels(img) \notin {3, 4}
    \/ InnerCount(img) = 0


(***************************************************************************)
(* Theme enumeration (load_themes): categories of three themes each.  With *)
(* dup, the first theme of the second category has the name of the first   *)
(* theme of the first category: names are unique only within a category.   *)
(***************************************************************************)
Hexes == <<"#008200", "#1e1e1e", "#ffffff">>

Theme(dup, i) ==
    [category |-> ((i - 1) \div 3) + 1,
     name     |-> IF dup /\ i = 4 THEN 1 ELSE i,
     hex      |-> Hexes[((i - 1) % 3) + 1]]

Enumeration(dup, n) == [i \in 1..n |-> Theme(dup, i)]

(***************************************************************************)
(* Files.  A file is absent, complete (data is its content) or partial     *)
(* (data is what has been written since it was truncated).                 *)
(***************************************************************************)
AbsentFile == [state |-> "absent", data |-> <<>>]

CompleteFile(d) == [state |-> "complete", data |-> d]

PartialFile(d) == [state |-> "partial", data |-> d]

\* what an earlier run left on disk
OldRecord ==
    [category |-> 0, name |-> 0, hex |-> "#000000", contrast |-> 1000,
     status |-> "BAD", bg_rgb |-> <<0, 0, 0>>, text_rgb |-> <<0, 0, 0>>]

OldTable == << [status |-> "BAD", contrast |-> 1000, name |-> 0, image |-> ImgDark] >>

\* generate_color_customizations: the title bar takes the base colour
Customizations(hex) == [titleBarActiveBackground |-> hex]

NoSettings == [titleBarActiveBackground |-> "none"]

\* mutant: keys the settings file already holds are kept
write_theme_keeping(previous, base_color) ==
    IF previous = NoSettings THEN Customizations(base_color) ELSE previous

\* write_theme: the content of settings.json after the call, given its
\* content before; open(settings_path, "w") truncates the file
write_theme(previous, base_color) == Customizations(base_color)

VARIABLES
    variant,    \* "early" or "later"
    themes,     \* the enumeration load_themes returned
    pc,         \* position of check_all_themes
    count,      \* themes started so far
    results,    \* list of result records
    images,     \* list of captured images
    img,        \* the image loaded for the current theme
    bg, text,   \* colours estimated for the current theme
    ratio,      \* contrast ratio of the current theme
    table,      \* the table image built by the current flush
    err,        \* the step whose exception ended the run
    settings,   \* <workspace>/.vscode/settings.json
    screen,     \* the title bar colour the display renders
    capfile,    \* <tmpdir>/capture.png
    shots,      \* contrast_snapshots/colors/<name>.png
    store,      \* data/classifications.json
    latest,     \* contrast_table.png
    hist,       \* contrast_snapshots/.../table_<count>.png
    calls,      \* how often write_theme and capture_region were invoked
    cr,         \* one invocation of capture_region, step by step
    call,       \* one application of a function: its inputs and its result
    gft         \* one run of generate_full_table

vars ==
    <<variant, themes, pc, count, results, images, img, bg, text, ratio,
      table, err, settings, screen, capfile, shots, store, latest, hist,
      calls, cr, call, gft>>

\* the state of the other entry points, which check_all_themes never touches
aux == <<cr, call, gft>>

NoCalls == [write_theme |-> 0, capture_region |-> 0]

Called(f) == [calls EXCEPT ![f] = @ + 1]

Idle == [pc |-> "idle"]

AuxIdle ==
    /\ cr = Idle
    /\ call = Idle
    /\ gft = Idle

locals == <<img, bg, text, ratio, table>>

disk == <<settings, capfile, shots, store, latest, hist>>

total == Len(themes)

NoCapture == [image |-> [mode |-> "none"], shows |-> "none"]

Init ==
    /\ variant \in {"early", "later"}
    /\ \E dup \in BOOLEAN, n \in 0..MaxThemes : themes = Enumeration(dup, n)
    /\ pc = "loop"
    /\ count = 0
    /\ results = <<>>
    /\ images = <<>>
    /\ img = NoCapture
    /\ bg = SentinelColor
    /\ text = SentinelColor
    /\ ratio = 0
    /\ table = <<>>
    /\ err = "none"
    /\ calls = NoCalls
    /\ AuxIdle
    /\ settings = NoSettings
    /\ screen = "none"
    /\ capfile = NoCapture
    /\ shots = <<>>
    /\ \E old \in BOOLEAN :
          IF old /\ variant = "later"
          THEN /\ store = CompleteFile(<<OldRecord>>)
               /\ latest = CompleteFile(OldTable)
               /\ hist = (BATCH_SIZE :> CompleteFile(OldTable))
          ELSE IF old
          THEN /\ store = AbsentFile
               /\ latest = CompleteFile(OldTable)
               /\ hist = (BATCH_SIZE :> CompleteFile(OldTable))
          ELSE /\ store = AbsentFile
               /\ latest = AbsentFile
               /\ hist = <<>>

\* an exception leaves the function: nothing after the raising statement runs
Raise(step) ==
    /\ pc' = "error"
    /\ err' = step

(***************************************************************************)
(* for category, colors in themes.items(): for name, hex_color in ...:     *)
(*     count += 1                                                          *)
(***************************************************************************)
ForNext ==
    /\ pc = "loop"
    /\ IF count < total
       THEN /\ count' = count + 1
            /\ pc' = "apply"
       ELSE /\ pc' = "done"
            /\ UNCHANGED count
    /\ UNCHANGED <<aux, calls, variant, themes, results, images, locals, err, disk, screen>>

\* write_theme(hex_color, workspace)
WriteTheme ==
    /\ pc = "apply"
    /\ calls' = Called("write_theme")
    /\ settings' = write_theme(settings, themes[count].hex)
    /\ pc' = "sleep"
    /\ UNCHANGED <<aux, variant, themes, count, results, images, locals, err,
                   screen, capfile, shots, store, latest, hist>>

WriteThemeFails ==
    /\ pc = "apply"
    /\ calls' = Called("write_theme")
    /\ Raise("apply")
    /\ UNCHANGED <<aux, variant, themes, count, results, images, locals, disk, screen>>

\* time.sleep(delay): the settle delay in which the editor repaints from
\* the settings file
Sleep ==
    /\ pc = "sleep"
    /\ screen' = settings.titleBarActiveBackground
    /\ pc' = "capture"
    /\ UNCHANGED <<aux, calls, variant, themes, count, results, images, locals, err, disk>>

\* capture_region(..., output=capture_path): a picture of the display
CaptureRegion ==
    /\ pc = "capture"
    /\ calls' = Called("capture_region")
    /\ \E im \in CaptureImages : capfile' = [image |-> im, shows |-> screen]
    /\ pc' = "open"
    /\ UNCHANGED <<aux, variant, themes, count, results, images, locals, err,
                   settings, screen, shots, store, latest, hist>>

\* mutant: a failed capture is attempted once more
CaptureRegionRetried ==
    /\ pc = "capture"
    /\ calls' = Called("capture_region")
    /\ IF calls.capture_region < count
       THEN UNCHANGED <<pc, err>>
       ELSE Raise("capture")
    /\ UNCHANGED <<aux, variant, themes, count, results, images, locals, disk, screen>>

\* subprocess.run(..., check=True) raises CalledProcessError
CaptureRegionFails ==
    /\ pc = "capture"
    /\ calls' = Called("capture_region")
    /\ Raise("capture")
    /\ UNCHANGED <<aux, variant, themes, count, results, images, locals, disk, screen>>

\* img = Image.open(capture_path).copy(); images.append(img)
OpenImage ==
    /\ pc = "open"
    /\ img' = capfile
    /\ images' = Append(images, capfile)
    /\ pc' = IF variant = "later" THEN "save_raw" ELSE "estimate"
    /\ UNCHANGED <<aux, calls, variant, themes, count, results, bg, text, ratio, table,
                   err, disk, screen>>

\* mutant: the screenshot is not saved before the estimation
SaveRawDeferred ==
    /\ pc = "save_raw"
    /\ pc' = "estimate"
    /\ UNCHANGED <<aux, calls, variant, themes, count, results, images, locals, err,
                   disk, screen>>

\* img.save(colors_dir / f"{name}.png")
SaveRaw ==
    /\ pc = "save_raw"
    /\ shots' = (themes[count].name :> CompleteFile(img)) @@ shots
    /\ pc' = "estimate"
    /\ UNCHANGED <<aux, calls, variant, themes, count, results, images, locals, err,
                   settings, screen, capfile, store, latest, hist>>

SaveRawFails ==
    /\ pc = "save_raw"
    /\ Raise("save_raw")
    /\ UNCHANGED <<aux, calls, variant, themes, count, results, images, locals, disk, screen>>

(***************************************************************************)
(* early: try: bg = get_dominant_color(img) ... except Exception:          *)
(*            ratio = -1; bg = (0, 0, 0)                                   *)
(* later: bg, text = estimate_bg_and_text(img_arr), not in a try block     *)
(***************************************************************************)
Estimate ==
    /\ pc = "estimate"
    /\ IF variant = "early"
       THEN IF DominantRaises(img.image)
            THEN /\ ratio' = SentinelRatio
                 /\ bg' = SentinelColor
                 /\ pc' = "record"
                 /\ UNCHANGED <<text, err>>
            ELSE /\ bg' = get_dominant_color(img.image)
                 /\ pc' = "score"
                 /\ UNCHANGED <<text, ratio, err>>
       ELSE IF EstimateRaises(img.image)
            THEN /\ Raise("estimate")
                 /\ UNCHANGED <<bg, text, ratio>>
            ELSE /\ \E e \in estimate_bg_and_text(img.image) :
                       /\ bg' = IntColour(e.bg)
                       /\ text' = IntColour(e.text)
                 /\ pc' = "score"
                 /\ UNCHANGED <<ratio, err>>
    /\ UNCHANGED <<aux, calls, variant, themes, count, results, images, img, table,
                   disk, screen>>

\* ratio = contrast_ratio(bg, TEXT_COLOR) / contrast_ratio(bg, text)
Score ==
    /\ pc = "score"
    /\ ratio' = IF variant = "early" THEN contrast_ratio_tuple(bg, TEXT_COLOR)
                ELSE contrast_ratio(bg, text)
    /\ pc' = "record"
    /\ UNCHANGED <<aux, calls, variant, themes, count, results, images, img, bg, text,
                   table, err, disk, screen>>

\* mutant: only full batches are flushed
FlushDueFullBatch(c, n) == c % BATCH_SIZE = 0

\* if count % BATCH_SIZE == 0 or count == total
FlushDue(c, n) == c % BATCH_SIZE = 0 \/ c = n

NewResult ==
    IF variant = "early"
    THEN [category |-> themes[count].category, name |-> themes[count].name,
          hex |-> themes[count].hex, contrast |-> ratio, bg_rgb |-> bg]
    ELSE [category |-> themes[count].category, name |-> themes[count].name,
          hex |-> themes[count].hex, contrast |-> ratio,
          status |-> get_status(ratio), bg_rgb |-> bg, text_rgb |-> text]

\* mutant: the flush test is skipped
RecordNoFlush ==
    /\ pc = "record"
    /\ results' = Append(results, NewResult)
    /\ pc' = "loop"
    /\ UNCHANGED <<aux, calls, variant, themes, count, images, locals, err, disk, screen>>

\* results.append(result), then the flush test
Record ==
    /\ pc = "record"
    /\ results' = Append(results, NewResult)
    /\ pc' = IF FlushDue(count, total)
             THEN IF variant = "later" THEN "open_store" ELSE "build_table"
             ELSE "loop"
    /\ UNCHANGED <<aux, calls, variant, themes, count, images, locals, err, disk, screen>>

(***************************************************************************)
(* with open(CLASSIFICATIONS_PATH, "w") as f: json.dump(results, f, ...)   *)
(* open truncates the file in place, json.dump writes it piece by piece,   *)
(* leaving the with block closes it.                                       *)
(***************************************************************************)
OpenStore ==
    /\ pc = "open_store"
    /\ store' = PartialFile(<<>>)
    /\ pc' = "dump_store"
    /\ UNCHANGED <<aux, calls, variant, themes, count, results, images, locals, err,
                   settings, screen, capfile, shots, latest, hist>>

\* mutant: the failed write is swallowed and the run goes on
OpenStoreFailsIgnored ==
    /\ pc = "open_store"
    /\ err' = "store"
    /\ pc' = "build_table"
    /\ UNCHANGED <<aux, calls, variant, themes, count, results, images, locals, disk, screen>>

OpenStoreFails ==
    /\ pc = "open_store"
    /\ Raise("store")
    /\ UNCHANGED <<aux, calls, variant, themes, count, results, images, locals, disk, screen>>

\* mutant: only the last batch is written, like the table
StoreContentLastBatch(rs) == SubSeq(rs, Max2(1, Len(rs) - BATCH_SIZE + 1), Len(rs))

StoreContent(rs) == rs

DumpStore ==
    /\ pc = "dump_store"
    /\ Len(store.data) < Len(StoreContent(results))
    /\ store' = PartialFile(Append(store.data,
                                   StoreContent(results)[Len(store.data) + 1]))
    /\ UNCHANGED <<aux, calls, variant, themes, pc, count, results, images, locals, err,
                   settings, screen, capfile, shots, latest, hist>>

DumpStoreFails ==
    /\ pc = "dump_store"
    /\ Raise("store")
    /\ UNCHANGED <<aux, calls, variant, themes, count, results, images, locals, disk, screen>>

CloseStore ==
    /\ pc = "dump_store"
    /\ Len(store.data) = Len(StoreContent(results))
    /\ store' = CompleteFile(store.data)
    /\ pc' = "build_table"
    /\ UNCHANGED <<aux, calls, variant, themes, count, results, images, locals, err,
                   settings, screen, capfile, shots, latest, hist>>

\* mutant: the first BATCH_SIZE entries, s[:BATCH_SIZE]
FirstBatch(s) == SubSeq(s, 1, Min2(Len(s), BATCH_SIZE))

\* s[-BATCH_SIZE:]
LastBatch(s) == SubSeq(s, Max2(1, Len(s) - BATCH_SIZE + 1), Len(s))

\* mutant: an empty result list is rendered like any other
BuildTableRenders(rs) == FALSE

\* if not results: raise ValueError("No results to build table from")
BuildTableRaises(rs) == rs = <<>>

\* mutant: the rows are labelled on the WCAG scale of the early variant
build_table_image_wcag(rs, ims) ==
    [i \in 1..Min2(Len(rs), Len(ims)) |->
        [status   |-> get_status_wcag(rs[i].contrast),
         contrast |-> rs[i].contrast,
         name     |-> rs[i].name,
         image    |-> ims[i].image]]

\* one row per pair of zip(results, images)
build_table_image(rs, ims) ==
    [i \in 1..Min2(Len(rs), Len(ims)) |->
        [status   |-> IF variant = "early" THEN get_status_wcag(rs[i].contrast)
                      ELSE get_status(rs[i].contrast),
         contrast |-> rs[i].contrast,
         name     |-> rs[i].name,
         image    |-> ims[i].image]]

BuildTable ==
    /\ pc = "build_table"
    /\ IF BuildTableRaises(LastBatch(results))
       THEN /\ Raise("build_table")
            /\ UNCHANGED table
       ELSE /\ table' = build_table_image(LastBatch(results), LastBatch(images))
            /\ pc' = "save_table"
            /\ UNCHANGED err
    /\ UNCHANGED <<aux, calls, variant, themes, count, results, images, img, bg, text,
                   ratio, disk, screen>>

\* table.save(TABLE_PATH)
SaveTable ==
    /\ pc = "save_table"
    /\ latest' = CompleteFile(table)
    /\ pc' = "save_snapshot"
    /\ UNCHANGED <<aux, calls, variant, themes, count, results, images, locals, err,
                   settings, screen, capfile, shots, store, hist>>

SaveTableFails ==
    /\ pc = "save_table"
    /\ Raise("table")
    /\ latest' \in {latest, PartialFile(<<>>)}
    /\ UNCHANGED <<aux, calls, variant, themes, count, results, images, locals,
                   settings, screen, capfile, shots, store, hist>>

\* mutant: the tables are numbered by batch, not by count
SnapshotNumberByBatch(c) == c \div BATCH_SIZE

\* the historical path of this flush: table_{count:03d}.png
SnapshotNumber(c) == c

\* table.save(tables_dir / f"table_{count:03d}.png")
SaveSnapshot ==
    /\ pc = "save_snapshot"
    /\ hist' = (SnapshotNumber(count) :> CompleteFile(table)) @@ hist
    /\ pc' = "loop"
    /\ UNCHANGED <<aux, calls, variant, themes, count, results, images, locals, err,
                   settings, screen, capfile, shots, store, latest>>

SaveSnapshotFails ==
    /\ pc = "save_snapshot"
    /\ Raise("snapshot")
    /\ \/ UNCHANGED hist
       \/ hist' = (SnapshotNumber(count) :> PartialFile(<<>>)) @@ hist
    /\ UNCHANGED <<aux, calls, variant, themes, count, results, images, locals,
                   settings, screen, capfile, shots, store, latest>>

\* the process is terminated; the files stay as they are
Interrupt ==
    /\ pc \notin {"done", "error", "killed"}
    /\ pc' = "killed"
    /\ UNCHANGED <<aux, calls, variant, themes, count, results, images, locals, err,
                   disk, screen>>

Next ==
    \/ ForNext
    \/ WriteTheme
    \/ WriteThemeFails
    \/ Sleep
    \/ CaptureRegion
    \/ CaptureRegionFails
    \/ OpenImage
    \/ SaveRaw
    \/ SaveRawFails
    \/ Estimate
    \/ Score
    \/ Record
    \/ OpenStore
    \/ OpenStoreFails
    \/ DumpStore
    \/ DumpStoreFails
    \/ CloseStore
    \/ BuildTable
    \/ SaveTable
    \/ SaveTableFails
    \/ SaveSnapshot
    \/ SaveSnapshotFails
    \/ Interrupt

Spec == Init /\ [][Next]_vars

(***************************************************************************)
(* Properties of check_all_themes.                                         *)
(***************************************************************************)
\* the analysis of a captured image raises an exception
AnalysisRaises(im) ==
    IF variant = "early" THEN DominantRaises(im) ELSE EstimateRaises(im)

\* C1: an exception while estimating or scoring a theme never ends the run:
\* the theme still gets a record, with the sentinel contrast and a zeroed
\* colour, and a run that returns has produced one record per theme.
C1_AnalysisFailureIsRecorded ==
    /\ err # "estimate"
    /\ \A k \in 1..Len(results) :
          AnalysisRaises(images[k].image) =>
             /\ results[k].contrast = SentinelRatio
             /\ results[k].bg_rgb = SentinelColor
    /\ pc = "done" => Len(results) = total

\* C2: when a flush has written the classification store, the store holds
\* exactly count records, the records of the themes processed so far in
\* processing order; while it is being written it never holds more.
C2_FlushWritesAllRecords ==
    /\ (variant = "later" /\ pc \in {"build_table", "save_table", "save_snapshot"}) =>
          /\ store.state = "complete"
          /\ Len(store.data) = count
          /\ store.data = results
          /\ \A i \in 1..count :
                /\ store.data[i].name = themes[i].name
                /\ store.data[i].category = themes[i].category
                /\ store.data[i].hex = themes[i].hex
    /\ pc = "dump_store" => Len(store.data) <= count

\* a flush that is due when the last theme is not a multiple of BATCH_SIZE
C2_Witness ==
    /\ variant = "later"
    /\ pc = "build_table"
    /\ count = total
    /\ count > BATCH_SIZE
    /\ count % BATCH_SIZE # 0
    /\ store = CompleteFile(results)

\* C3: the store path never holds a partially written document.
C3_StoreNeverPartial == store.state # "partial"

\* C4: once the first flush of a run is complete, an interrupted run leaves
\* in the store exactly the records of the first k themes, k the count of a
\* completed flush.
C4_InterruptedStoreIsPrefix ==
    (variant = "later" /\ pc = "killed" /\ count > Min2(BATCH_SIZE, total)) =>
       \E k \in 1..Len(results) :
          /\ k % BATCH_SIZE = 0 \/ k = total
          /\ store = CompleteFile(SubSeq(results, 1, k))

\* C5: every record's contrast is at least 1.0.
C5_ContrastAtLeastOne ==
    \A i \in 1..Len(results) : results[i].contrast >= 1000

\* the positions that may follow each position of the per-theme cycle
StepsAfter(p) ==
    CASE p = "loop"          -> {"apply", "done"}
      [] p = "apply"         -> {"sleep"}
      [] p = "sleep"         -> {"capture"}
      [] p = "capture"       -> {"open"}
      [] p = "open"          -> {"save_raw", "estimate"}
      [] p = "save_raw"      -> {"estimate"}
      [] p = "estimate"      -> {"score", "record"}
      [] p = "score"         -> {"record"}
      [] p = "record"        -> {"open_store", "build_table", "loop"}
      [] p = "open_store"    -> {"dump_store"}
      [] p = "dump_store"    -> {"build_table"}
      [] p = "build_table"   -> {"save_table"}
      [] p = "save_table"    -> {"save_snapshot"}
      [] p = "save_snapshot" -> {"loop"}
      [] OTHER               -> {}

\* the table a flush at count k builds
TableAt(k) ==
    build_table_image(LastBatch(SubSeq(results, 1, k)),
                      LastBatch(SubSeq(images, 1, k)))

\* what holds at each position of the cycle of theme number count
CycleState ==
    /\ pc = "apply" =>
          /\ Len(results) = count - 1
          /\ Len(images) = count - 1
          /\ (count > 1 /\ (count - 1) % BATCH_SIZE = 0) =>
                /\ (count - 1) \in DOMAIN hist
                /\ hist[count - 1] = CompleteFile(TableAt(count - 1))
                /\ latest = hist[count - 1]
                /\ variant = "later" => store = CompleteFile(results)
    /\ pc \in {"sleep", "capture"} =>
          settings = Customizations(themes[count].hex)
    /\ pc = "capture" => screen = themes[count].hex
    /\ pc = "open" => capfile.shows = themes[count].hex
    /\ pc \in {"save_raw", "estimate", "score", "record"} =>
          /\ Len(images) = count
          /\ Len(results) = count - 1
          /\ img = images[count]
    /\ pc \in {"open_store", "dump_store", "build_table", "save_table",
               "save_snapshot"} =>
          /\ Len(results) = count
          /\ Len(images) = count
    /\ \A k \in 1..Len(images) : images[k].shows = themes[k].hex
    /\ \A k \in 1..Len(results) :
          /\ results[k].name = themes[k].name
          /\ results[k].hex = themes[k].hex

\* C6: within a theme the steps run in the order apply, settle delay,
\* capture, estimate, score, record; theme k + 1 is applied only when the
\* record of theme k, and its flush when one is due, are complete; every
\* capture shows the theme applied last.
C6_StrictlySequential ==
    /\ []CycleState
    /\ [][pc' # pc => (pc' \in StepsAfter(pc) \/ pc' \in {"error", "killed"})]_vars
    /\ [][count' # count => (pc = "loop" /\ count' = count + 1)]_vars

\* theme BATCH_SIZE + 1 is about to be applied, after the flush of theme
\* BATCH_SIZE
C6_Witness ==
    /\ pc = "apply"
    /\ count = BATCH_SIZE + 1
    /\ BATCH_SIZE \in DOMAIN hist
    /\ hist[BATCH_SIZE] = CompleteFile(TableAt(BATCH_SIZE))
    /\ Len(results) = BATCH_SIZE

\* the flush of theme k is complete
Flushed(k) ==
    /\ k \in 1..count
    /\ k % BATCH_SIZE = 0 \/ k = total
    /\ k < count \/ pc \in {"loop", "done"}

\* C7: a completed flush has written its table under the number of its
\* count and to the latest path; the historical table of a completed flush
\* is never overwritten by a later flush and survives an interruption.
C7_HistoricalTablesIntact ==
    \A k \in 1..count :
       Flushed(k) =>
          /\ k \in DOMAIN hist
          /\ hist[k] = CompleteFile(TableAt(k))
          /\ k = count => latest = hist[k]

\* the second flush of a run is interrupted between its two table writes
C7_Witness ==
    /\ pc = "killed"
    /\ count = BATCH_SIZE + 1
    /\ Flushed(BATCH_SIZE)
    /\ Len(results) = count
    /\ BATCH_SIZE \in DOMAIN hist
    /\ latest = CompleteFile(TableAt(count))
    /\ hist[BATCH_SIZE] = CompleteFile(TableAt(BATCH_SIZE))
    /\ count \notin DOMAIN hist

\* C8: in the later variant the raw screenshot of the current theme is on
\* disk under the theme's name while the theme is estimated and scored, and
\* still is when its estimation has failed.
C8_ScreenshotBeforeScoring ==
    (/\ variant = "later"
     /\ \/ pc \in {"estimate", "score", "record"}
        \/ pc = "error" /\ err = "estimate") =>
       /\ themes[count].name \in DOMAIN shots
       /\ shots[themes[count].name] = CompleteFile(images[count])

\* the estimation of a theme has failed and its screenshot is on disk
C8_Witness ==
    /\ variant = "later"
    /\ pc = "error"
    /\ err = "estimate"
    /\ themes[count].name \in DOMAIN shots
    /\ shots[themes[count].name] = CompleteFile(images[count])

WriteErrors == {"store", "table", "snapshot"}

WrittenStateUnchanged ==
    UNCHANGED <<count, results, images, settings, capfile, shots, store,
                latest, hist>>

\* C9: a failed write of the store or of a table ends the run with the
\* error: the run does not return, and no theme is applied, captured or
\* recorded afterwards.
C9_WriteFailureAborts ==
    /\ [](err \in WriteErrors => pc = "error")
    /\ [][(err \in WriteErrors) => WrittenStateUnchanged]_vars

\* the store could not be written while themes remain
C9_Witness ==
    /\ pc = "error"
    /\ err = "store"
    /\ count < total
    /\ Len(results) = count

\* C10: in the later variant a theme whose capture holds no bar candidate
\* (the detector returns the empty sequence) is recorded with the sentinel
\* failed measurement.
C10_NoBarIsSentinel ==
    \A k \in 1..Len(results) :
       (variant = "later" /\ find_bar_boxes(images[k].image) = <<>>) =>
          results[k].contrast = SentinelRatio

\* the run is at or past the statement at position p of the current theme
Reached(p) ==
    CASE p = "apply"   -> pc \notin {"apply"}
      [] p = "capture" -> pc \notin {"apply", "sleep", "capture"} /\ err # "apply"

\* C11: no operation is retried.  write_theme and capture_region have each
\* been invoked exactly once for every theme the loop has reached (never
\* more, and once the statement has run, never less), and every theme
\* contributes at most one record, the k-th record being that of theme k,
\* also when the capture or the analysis fails.
C11_NoRetry ==
    /\ calls.write_theme <= count
    /\ calls.capture_region <= count
    /\ (pc # "killed" /\ Reached("apply")) => calls.write_theme = count
    /\ (pc # "killed" /\ Reached("capture")) => calls.capture_region = count
    /\ Len(results) <= count
    /\ \A k \in 1..Len(results) :
          /\ results[k].name = themes[k].name
          /\ results[k].hex = themes[k].hex

\* a run that got through several themes, one of whose analyses failed, and
\* whose last capture failed
C11_Witness ==
    /\ count >= 3
    /\ err = "capture"
    /\ calls.capture_region = count
    /\ Len(results) = count - 1
    /\ \E k \in 1..Len(results) : results[k].contrast = SentinelRatio

(***************************************************************************)
(* The other entry points run on their own; check_all_themes is then not   *)
(* running and its state stays as it is.                                   *)
(***************************************************************************)
orch ==
    <<variant, themes, pc, count, results, images, locals, err, calls, screen>>

OrchIdle ==
    /\ themes = <<>>
    /\ pc = "idle"
    /\ count = 0
    /\ results = <<>>
    /\ images = <<>>
    /\ img = NoCapture
    /\ bg = SentinelColor
    /\ text = SentinelColor
    /\ ratio = 0
    /\ table = <<>>
    /\ err = "none"
    /\ calls = NoCalls
    /\ screen = "none"

DiskIdle ==
    /\ settings = NoSettings
    /\ capfile = NoCapture
    /\ shots = <<>>
    /\ store = AbsentFile
    /\ latest = AbsentFile
    /\ hist = <<>>

(***************************************************************************)
(* capture_region (capture_top.py), statement by statement.  cr.tmp is the *)
(* temporary raw-capture file, cr.out the output file.                     *)
(***************************************************************************)
\* sizes of the display that is captured
Displays == {[w |-> 1920, h |-> 1080], [w |-> 3008, h |-> 1692]}

\* int(img.width * left_percent / 100) and the like
Percent(n, p) == (n * p) \div 100

\* img.crop((left, top, right, bottom)), then the top third is cut off
CropRegion(im, a) ==
    LET cw == Percent(im.w, a.right) - Percent(im.w, a.left)
        ch == Percent(im.h, a.bottom) - Percent(im.h, a.top)
    IN  [w |-> cw, h |-> ch - (ch \div 3)]

CaptureArgs ==
    [top : {0}, bottom : {5, 10}, left : {0, 46}, right : {54, 100}]

InitCapture ==
    /\ variant = "later"
    /\ OrchIdle
    /\ DiskIdle
    /\ call = Idle
    /\ gft = Idle
    /\ \E a \in CaptureArgs, d \in Displays, o \in {"absent", "old"} :
          cr = [pc |-> "tmpfile", args |-> a, display |-> d, tmp |-> "absent",
                img |-> "none", final |-> "none", out |-> o, err |-> "none"]

CrRaise(step) == [cr EXCEPT !.pc = "error", !.err = step]

\* with tempfile.NamedTemporaryFile(suffix=".png", delete=False) as tmp
CrTempFile ==
    /\ cr.pc = "tmpfile"
    /\ cr' = [cr EXCEPT !.pc = "screencapture", !.tmp = "empty"]
    /\ UNCHANGED <<orch, disk, call, gft>>

\* subprocess.run(["screencapture", ...], check=True)
CrScreencapture ==
    /\ cr.pc = "screencapture"
    /\ cr' = [cr EXCEPT !.pc = "open", !.tmp = "image"]
    /\ UNCHANGED <<orch, disk, call, gft>>

\* screencapture exits non-zero: CalledProcessError
CrScreencaptureFails ==
    /\ cr.pc = "screencapture"
    /\ cr' = CrRaise("screencapture")
    /\ UNCHANGED <<orch, disk, call, gft>>

\* img = Image.open(tmp_path)
CrOpen ==
    /\ cr.pc = "open"
    /\ cr' = [cr EXCEPT !.pc = "crop", !.img = cr.display]
    /\ UNCHANGED <<orch, disk, call, gft>>

\* Image.open raises: the file holds no image PIL can identify
CrOpenFails ==
    /\ cr.pc = "open"
    /\ cr' = CrRaise("open")
    /\ UNCHANGED <<orch, disk, call, gft>>

\* cropped = img.crop(...); final = cropped.crop(...)
CrCrop ==
    /\ cr.pc = "crop"
    /\ cr' = [cr EXCEPT !.pc = "save", !.final = CropRegion(cr.img, cr.args)]
    /\ UNCHANGED <<orch, disk, call, gft>>

\* final.save(output)
CrSave ==
    /\ cr.pc = "save"
    /\ cr' = [cr EXCEPT !.pc = "unlink", !.out = cr.final]
    /\ UNCHANGED <<orch, disk, call, gft>>

\* final.save raises: the output cannot be written
CrSaveFails ==
    /\ cr.pc = "save"
    /\ cr' = CrRaise("save")
    /\ UNCHANGED <<orch, disk, call, gft>>

\* Path(tmp_path).unlink()
CrUnlink ==
    /\ cr.pc = "unlink"
    /\ cr' = [cr EXCEPT !.pc = "done", !.tmp = "absent"]
    /\ UNCHANGED <<orch, disk, call, gft>>

NextCapture ==
    \/ CrTempFile
    \/ CrScreencapture
    \/ CrScreencaptureFails
    \/ CrOpen
    \/ CrOpenFails
    \/ CrCrop
    \/ CrSave
    \/ CrSaveFails
    \/ CrUnlink

SpecCapture == InitCapture /\ [][NextCapture]_vars

\* C12: when capture_region has ended, by returning or by raising (the
\* capture failed, the image could not be opened, the output could not be
\* saved), its temporary raw-capture file no longer exists.
C12_TempFileDeleted ==
    cr.pc \in {"done", "error"} => cr.tmp = "absent"

(***************************************************************************)
(* get_status applied to one ratio: the sentinel or a measured ratio.      *)
(***************************************************************************)
Ratios == {SentinelRatio} \cup (0..MaxRatio)

InitStatus ==
    /\ variant = "later"
    /\ OrchIdle
    /\ DiskIdle
    /\ cr = Idle
    /\ gft = Idle
    /\ \E f \in {"get_status", "get_status_wcag"}, r \in Ratios :
          call = [pc |-> "call", fn |-> f, ratio |-> r, out |-> "none"]

\* src/scripts/check_contrast.py: get_status(ratio)
GetStatus ==
    /\ call.pc = "call"
    /\ call.fn = "get_status"
    /\ call' = [call EXCEPT !.pc = "returned", !.out = get_status(call.ratio)]
    /\ UNCHANGED <<orch, disk, cr, gft>>

\* src/check_contrast.py: get_status(ratio)
GetStatusWcag ==
    /\ call.pc = "call"
    /\ call.fn = "get_status_wcag"
    /\ call' = [call EXCEPT !.pc = "returned", !.out = get_status_wcag(call.ratio)]
    /\ UNCHANGED <<orch, disk, cr, gft>>

NextStatus ==
    \/ GetStatus
    \/ GetStatusWcag

SpecStatus == InitStatus /\ [][NextStatus]_vars

\* C13: the thresholds are inclusive lower bounds.  On the WCAG scale a
\* ratio of at least 4.5 is OK, one of at least 3 and below 4.5 is LOW; on
\* the project scale at least 2.0 is GOOD, at least 1.5 and below 2.0 is
\* MID; every ratio below the lower threshold, the sentinel included, is
\* BAD; so every ratio has exactly one status.
C13_ThresholdsInclusive ==
    call.pc = "returned" =>
       LET r == call.ratio
           o == call.out
       IN  /\ call.fn = "get_status_wcag" =>
                /\ (o = "OK") <=> (r >= 4500)
                /\ (o = "LOW") <=> (r >= 3000 /\ r < 4500)
                /\ (o = "BAD") <=> (r < 3000)
                /\ o \in {"OK", "LOW", "BAD"}
           /\ call.fn = "get_status" =>
                /\ (o = "GOOD") <=> (r >= 2000)
                /\ (o = "MID") <=> (r >= 1500 /\ r < 2000)
                /\ (o = "BAD") <=> (r < 1500)
                /\ o \in {"GOOD", "MID", "BAD"}
           /\ r = SentinelRatio => o = "BAD"

\* a ratio exactly at the lower threshold of the project scale
C13_Witness ==
    /\ call.pc = "returned"
    /\ call.fn = "get_status"
    /\ call.ratio = 1500
    /\ call.out = "MID"

(***************************************************************************)
(* contrast_ratio applied to two colours, in its three implementations.    *)
(***************************************************************************)
\* channel values on both sides of the branch of srgb_to_linear
ChannelValues == {0, 10, 11, 255}

Colours == ChannelValues \X ChannelValues \X ChannelValues

\* float arrays, as the medians of the estimator; 300 is clipped to 255
ArrayColours ==
    (ChannelValues \cup {300}) \X (ChannelValues \cup {300})
       \X (ChannelValues \cup {300})

\* the hex string of a colour: f"{r:02x}{g:02x}{b:02x}", with or without "#"
HexString(rgb, hash) ==
    [hash |-> hash,
     digits |-> <<rgb[1] \div 16, rgb[1] % 16, rgb[2] \div 16, rgb[2] % 16,
                  rgb[3] \div 16, rgb[3] % 16>>]

HexColours == {HexString(c, h) : c \in Colours, h \in BOOLEAN}

InitContrast ==
    /\ variant = "later"
    /\ OrchIdle
    /\ DiskIdle
    /\ cr = Idle
    /\ gft = Idle
    /\ \/ \E a \in ArrayColours, b \in ArrayColours :
             call = [pc |-> "call", fn |-> "array", a |-> a, b |-> b, out |-> <<>>]
       \/ \E a \in Colours, b \in Colours :
             call = [pc |-> "call", fn |-> "tuple", a |-> a, b |-> b, out |-> <<>>]
       \/ \E a \in HexColours, b \in HexColours :
             call = [pc |-> "call", fn |-> "hex", a |-> a, b |-> b, out |-> <<>>]

\* the ratios of (a, b), (b, a) and (a, a)
ContrastArray ==
    /\ call.pc = "call"
    /\ call.fn = "array"
    /\ call' = [call EXCEPT !.pc = "returned",
                  !.out = [ab |-> contrast_ratio(call.a, call.b),
                           ba |-> contrast_ratio(call.b, call.a),
                           aa |-> contrast_ratio(call.a, call.a)]]
    /\ UNCHANGED <<orch, disk, cr, gft>>

ContrastTuple ==
    /\ call.pc = "call"
    /\ call.fn = "tuple"
    /\ call' = [call EXCEPT !.pc = "returned",
                  !.out = [ab |-> contrast_ratio_tuple(call.a, call.b),
                           ba |-> contrast_ratio_tuple(call.b, call.a),
                           aa |-> contrast_ratio_tuple(call.a, call.a)]]
    /\ UNCHANGED <<orch, disk, cr, gft>>

ContrastHex ==
    /\ call.pc = "call"
    /\ call.fn = "hex"
    /\ call' = [call EXCEPT !.pc = "returned",
                  !.out = [ab |-> contrast_ratio_hex(call.a, call.b),
                           ba |-> contrast_ratio_hex(call.b, call.a),
                           aa |-> contrast_ratio_hex(call.a, call.a)]]
    /\ UNCHANGED <<orch, disk, cr, gft>>

NextContrast ==
    \/ ContrastArray
    \/ ContrastTuple
    \/ ContrastHex

SpecContrast == InitContrast /\ [][NextContrast]_vars

\* C14: in each of the three implementations the contrast ratio of two
\* colours does not depend on their order, the ratio of a colour with
\* itself is 1.0, and no ratio is below 1.0.
C14_ContrastSymmetric ==
    call.pc = "returned" =>
       /\ call.out.ab = call.out.ba
       /\ call.out.aa = 1000
       /\ call.out.ab >= 1000

\* the darker colour is passed first, to the array implementation
C14_Witness ==
    /\ call.pc = "returned"
    /\ call.fn = "array"
    /\ call.a = <<0, 10, 11>>
    /\ call.b = <<255, 255, 255>>
    /\ call.out.ab > 1000

(***************************************************************************)
(* find_bar_boxes on an image.  The image is a dark ground on which        *)
(* disjoint axis-parallel rectangles are painted, each in one grey level;  *)
(* the bright pixels are those of the rectangles whose level passes the    *)
(* mask threshold.  Two disjoint rectangles are 4-connected exactly when   *)
(* they share a piece of an edge; touching corners do not connect.         *)
(***************************************************************************)
Rect(x0, y0, x1, y1) == [x0 |-> x0, y0 |-> y0, x1 |-> x1, y1 |-> y1]

Rects ==
    << Rect(10, 10, 144, 25),     \* 134 x 15: area 2010
       Rect(144, 10, 154, 25),    \* joins the first on its right edge
       Rect(144, 25, 160, 40),    \* below the second, corner to the first
       Rect(10, 60, 143, 75),     \* 133 x 15: area 1995
       Rect(10, 100, 210, 114),   \* 200 x 14: too low
       Rect(300, 100, 350, 150),  \* 50 x 50: not wide
       Rect(200, 10, 325, 60),    \* 125 x 50: w / h = 2.5
       Rect(10, 160, 390, 190) >> \* 380 x 30

\* grey levels: the dark ground, the level at the threshold, the first
\* level above it
GreyLevels == {30, 55, 56}

\* y = 0.2126 r + 0.7152 g + 0.0722 b; mask = y > 55.0
Bright(rgb) == 2126 * rgb[1] + 7152 * rgb[2] + 722 * rgb[3] > 55 * 10000

BrightRects(paint) ==
    {Rects[i] : i \in {j \in DOMAIN Rects : Bright(<<paint[j], paint[j], paint[j]>>)}}

\* some pixel of r has a 4-neighbour in s
Touch(r, s) ==
    \/ /\ r.x1 = s.x0 \/ s.x1 = r.x0
       /\ r.y0 < s.y1
       /\ s.y0 < r.y1
    \/ /\ r.y1 = s.y0 \/ s.y1 = r.y0
       /\ r.x0 < s.x1
       /\ s.x0 < r.x1

\* the flood fill from the rectangles of S within the bright rectangles R
RECURSIVE Flood(_, _)
Flood(S, R) ==
    LET T == S \cup {s \in R : \E r \in S : Touch(r, s)}
    IN  IF T = S THEN S ELSE Flood(T, R)

ComponentsOf(R) == {Flood({r}, R) : r \in R}

MinOf(S) == CHOOSE m \in S : \A n \in S : m <= n

MaxOf(S) == CHOOSE m \in S : \A n \in S : m >= n

\* x0, x1 = xs.min(), xs.max() + 1; y0, y1 = ys.min(), ys.max() + 1
BoundingBox(C) ==
    Rect(MinOf({r.x0 : r \in C}), MinOf({r.y0 : r \in C}),
         MaxOf({r.x1 : r \in C}), MaxOf({r.y1 : r \in C}))

\* the first pixel of a component in raster order: (y, x)
FirstPixel(C) ==
    LET y == MinOf({r.y0 : r \in C})
    IN  <<y, MinOf({r.x0 : r \in {q \in C : q.y0 = y}})>>

\* labels are given in the raster order of the components' first pixels
RECURSIVE LabelOrder(_)
LabelOrder(S) ==
    IF S = {} THEN <<>>
    ELSE LET c == CHOOSE c \in S : \A d \in S :
                     \/ FirstPixel(c)[1] < FirstPixel(d)[1]
                     \/ /\ FirstPixel(c)[1] = FirstPixel(d)[1]
                        /\ FirstPixel(c)[2] <= FirstPixel(d)[2]
         IN  <<c>> \o LabelOrder(S \ {c})

\* the bounding boxes of the labelled components, for k = 1 .. n
label_components(paint) ==
    LET order == LabelOrder(ComponentsOf(BrightRects(paint)))
    IN  [k \in DOMAIN order |-> BoundingBox(order[k])]

InitBoxes ==
    /\ variant = "later"
    /\ OrchIdle
    /\ DiskIdle
    /\ cr = Idle
    /\ gft = Idle
    /\ \E paint \in [DOMAIN Rects -> GreyLevels] :
          call = [pc |-> "call", fn |-> "find_bar_boxes", img |-> paint,
                  out |-> <<>>]

FindBarBoxes ==
    /\ call.pc = "call"
    /\ call.fn = "find_bar_boxes"
    /\ call' = [call EXCEPT !.pc = "returned",
                  !.out = find_bar_boxes([comps |-> label_components(call.img)])]
    /\ UNCHANGED <<orch, disk, cr, gft>>

NextBoxes == FindBarBoxes

SpecBoxes == InitBoxes /\ [][NextBoxes]_vars

\* the bounding boxes the detector has to report for an image
WantedBoxes(paint) ==
    {b \in {BoundingBox(C) : C \in ComponentsOf(BrightRects(paint))} :
        /\ (b.x1 - b.x0) * (b.y1 - b.y0) >= 2000
        /\ 2 * (b.x1 - b.x0) >= 5 * (b.y1 - b.y0)
        /\ b.y1 - b.y0 >= 15}

\* C15: find_bar_boxes returns, by ascending y0 and each once, exactly the
\* bounding boxes of the 4-connected components of bright pixels whose box
\* has area at least 2000, is at least 2.5 times as wide as high and is at
\* least 15 high; an image with one band gives that band's bounds, and an
\* image without bright pixels gives the empty list.
C15_BoxesOfBrightComponents ==
    call.pc = "returned" =>
       /\ {call.out[k] : k \in DOMAIN call.out} = WantedBoxes(call.img)
       /\ Len(call.out) = Cardinality(WantedBoxes(call.img))
       /\ \A j, k \in DOMAIN call.out : j < k => call.out[j].y0 <= call.out[k].y0
       /\ \A i \in DOMAIN Rects :
             (BrightRects(call.img) = {Rects[i]} /\ i \in {1, 7, 8}) =>
                call.out = <<Rects[i]>>
       /\ BrightRects(call.img) = {} => call.out = <<>>

\* a bar, a rectangle that touches it only at a corner and is a component
\* of its own, three more rejected components, and a lower bar
C15_Witness ==
    /\ call.pc = "returned"
    /\ call.img = <<56, 30, 56, 56, 56, 56, 55, 56>>
    /\ call.out = <<Rect(10, 10, 144, 25), Rect(10, 160, 390, 190)>>

(***************************************************************************)
(* estimate_bg_and_text on a synthetic region: a ground of one colour      *)
(* with a centred patch of a second colour.                                *)
(***************************************************************************)
RegionHeights == {1, 4, 12, 36}

RegionWidths == {1, 10, 40, 154}

\* rows and columns of the patch; <<0, 0>> is no patch
PatchSizes == {<<0, 0>>, <<1, 1>>, <<4, 4>>, <<5, 10>>, <<10, 10>>, <<12, 60>>}

GroundColours == {<<30, 30, 30>>, <<0, 130, 0>>}

\* from <<30, 30, 30>>: at distance 17.3, 26.0 and 389.7
PatchColours == {<<40, 40, 40>>, <<45, 45, 45>>, <<255, 255, 255>>}

RegionsOfSize(h, w) ==
    {[mode |-> m, h |-> h, w |-> w, bgpix |-> b, fgpix |-> f,
      ph |-> p[1], pw |-> p[2]] :
        m \in {"RGB", "RGBA"}, b \in GroundColours, f \in PatchColours,
        p \in {q \in PatchSizes \cup {<<h, w>>} : q[1] <= h /\ q[2] <= w}}

Regions ==
    UNION {RegionsOfSize(h, w) : h \in RegionHeights, w \in RegionWidths}

InitEstimate ==
    /\ variant = "later"
    /\ OrchIdle
    /\ DiskIdle
    /\ cr = Idle
    /\ gft = Idle
    /\ \E rg \in Regions :
          call = [pc |-> "call", fn |-> "estimate_bg_and_text", img |-> rg,
                  out |-> [bg |-> NaN, text |-> NaN, sample |-> 0,
                           fallback |-> FALSE]]

EstimateBgAndText ==
    /\ call.pc = "call"
    /\ call.fn = "estimate_bg_and_text"
    /\ \E e \in estimate_bg_and_text(call.img) :
          call' = [call EXCEPT !.pc = "returned", !.out = e]
    /\ UNCHANGED <<orch, disk, cr, gft>>

NextEstimate == EstimateBgAndText

SpecEstimate == InitEstimate /\ [][NextEstimate]_vars

\* the region has a patch whose colour is farther than 25 from the ground
HasFarPatch(rg) ==
    /\ rg.ph >= 1
    /\ rg.pw >= 1
    /\ Far(rg.fgpix, Twice(rg.bgpix))

\* C16 (as stated): for every region of solid colour bg with a centred
\* patch of a colour fg farther than 25 from bg, whatever the sizes of the
\* region and of the patch, estimate_bg_and_text returns exactly (bg, fg).
C16_ExactOnAnyPatch ==
    (call.pc = "returned" /\ HasFarPatch(call.img)) =>
       /\ call.out.bg = Twice(call.img.bgpix)
       /\ call.out.text = Twice(call.img.fgpix)

\* C16 (amended): estimate_bg_and_text returns exactly (bg, fg) when the
\* patch, of a colour farther than 25 from bg, lies wholly in the interior
\* of the region (clear of the clipped rows and of the border bands) and
\* has at least 50 pixels.
C16_ExactOnInteriorPatch ==
    ( /\ call.pc = "returned"
      /\ HasFarPatch(call.img)
      /\ InnerFg(call.img) = call.img.ph * call.img.pw
      /\ call.img.ph * call.img.pw >= 50 ) =>
       /\ call.out.bg = Twice(call.img.bgpix)
       /\ call.out.text = Twice(call.img.fgpix)

\* a patch of 100 pixels in the interior of a 36 x 154 region
C16_Witness ==
    /\ call.pc = "returned"
    /\ call.img.h = 36
    /\ call.img.w = 154
    /\ call.img.ph = 10
    /\ call.img.pw = 10
    /\ InnerFg(call.img) = 100
    /\ call.img.bgpix = <<0, 130, 0>>
    /\ call.img.fgpix = <<255, 255, 255>>
    /\ call.out.bg = <<0, 260, 0>>
    /\ call.out.text = <<510, 510, 510>>
    /\ ~call.out.fallback

\* C17: for every region with at least one row, one column and 3 or 4
\* channels the text colour is a median over at least one pixel, never an
\* undefined colour, and the fallback takes the max(50, n // 200) farthest
\* of the n interior pixels (all of them when there are no more).
C17_TextSampleNotEmpty ==
    call.pc = "returned" =>
       /\ call.out.text # NaN
       /\ call.out.sample >= 1
       /\ call.out.fallback =>
             call.out.sample =
                Min2(InnerCount(call.img), Max2(50, InnerCount(call.img) \div 200))

(***************************************************************************)
(* write_theme called again and again on one workspace.  call.color is the *)
(* colour of the last call, call.n how many calls in a row had that        *)
(* colour, call.first the content the first of them left, call.prior the   *)
(* content of settings.json before the first call.                         *)
(***************************************************************************)
ThemeColours ==
    {"#008200", "#1e1e1e", "#ffffff", "#ff0000", "#7f7f7f", "#0000aa"}

\* what settings.json holds before: nothing, an earlier theme, or colours
\* the user chose
PriorSettings ==
    {NoSettings, [titleBarActiveBackground |-> "#abcdef"]}
       \cup {Customizations(c) : c \in ThemeColours}

InitTheme ==
    /\ variant = "later"
    /\ OrchIdle
    /\ cr = Idle
    /\ gft = Idle
    /\ capfile = NoCapture
    /\ shots = <<>>
    /\ store = AbsentFile
    /\ latest = AbsentFile
    /\ hist = <<>>
    /\ settings \in PriorSettings
    /\ call = [pc |-> "ready", fn |-> "write_theme", color |-> "none", n |-> 0,
               first |-> settings, prior |-> settings]

WriteThemeCall ==
    /\ call.fn = "write_theme"
    /\ \E c \in ThemeColours :
          /\ c = call.color => call.n < MaxCalls
          /\ settings' = write_theme(settings, c)
          /\ call' = IF c = call.color
                     THEN [call EXCEPT !.n = @ + 1]
                     ELSE [call EXCEPT !.color = c, !.n = 1,
                                       !.first = write_theme(settings, c)]
    /\ UNCHANGED <<orch, capfile, shots, store, latest, hist, cr, gft>>

NextTheme == WriteThemeCall

SpecTheme == InitTheme /\ [][NextTheme]_vars

\* C18: after any number of calls of write_theme in a row with one colour,
\* settings.json holds what the first of them left, and that is the
\* customization of the colour, whatever the file held before.
C18_WriteThemeIdempotent ==
    call.n >= 1 =>
       /\ settings = call.first
       /\ settings = Customizations(call.color)
       /\ settings.titleBarActiveBackground = call.color

\* three calls in a row on a workspace that held another theme
C18_Witness ==
    /\ call.n = MaxCalls
    /\ call.color = "#008200"
    /\ call.prior = Customizations("#ffffff")
    /\ settings = Customizations("#008200")

(***************************************************************************)
(* build_table_image applied to a result list and an image list.           *)
(***************************************************************************)
SeqsUpTo(S, n) == UNION {[1..k -> S] : k \in 0..n}

TableResults ==
    [name : {1, 2}, contrast : {SentinelRatio, 1000, 1700, 4600}]

TableImages == {[image |-> ImgBar], [image |-> ImgDark]}

InitTable ==
    /\ variant \in {"early", "later"}
    /\ OrchIdle
    /\ DiskIdle
    /\ cr = Idle
    /\ gft = Idle
    /\ \E rs \in SeqsUpTo(TableResults, MaxRows), ims \in SeqsUpTo(TableImages, MaxRows) :
          call = [pc |-> "call", fn |-> "build_table_image", results |-> rs,
                  images |-> ims, out |-> <<>>]

BuildTableImage ==
    /\ call.pc = "call"
    /\ call.fn = "build_table_image"
    /\ call' = IF BuildTableRaises(call.results)
               THEN [call EXCEPT !.pc = "raised"]
               ELSE [call EXCEPT !.pc = "returned",
                        !.out = build_table_image(call.results, call.images)]
    /\ UNCHANGED <<orch, disk, cr, gft>>

NextTable == BuildTableImage

SpecTable == InitTable /\ [][NextTable]_vars

\* C19: build_table_image called with an empty result list raises and
\* yields no image; it returns a table only for a result list that is not
\* empty.
C19_EmptyResultsRaise ==
    /\ (call.pc # "call" /\ call.results = <<>>) =>
          /\ call.pc = "raised"
          /\ call.out = <<>>
    /\ call.pc = "returned" => call.results # <<>>

\* the call with no results, though images are at hand
C19_Witness ==
    /\ call.pc = "raised"
    /\ call.results = <<>>
    /\ Len(call.images) = MaxRows

(***************************************************************************)
(* generate_full_table.main, statement by statement.  It reads the         *)
(* classification store and the raw screenshots; gft.out is                *)
(* contrast_full_table.png.                                                *)
(***************************************************************************)
\* a record as check_all_themes (later variant) stores it
StoreRecord(n, c) ==
    [category |-> 1, name |-> n, hex |-> "#008200", contrast |-> c,
     status |-> get_status(c), bg_rgb |-> <<0, 130, 0>>,
     text_rgb |-> <<255, 255, 255>>]

StoreRecords == {StoreRecord(n, c) : n \in {1, 2, 3}, c \in {1000, 1500, 2300}}

\* the screenshots on disk: those of the themes in names
Screenshots(names) ==
    [n \in names |-> CompleteFile([image |-> ImgBar, shows |-> "#008200"])]

\* stable insertion by contrast, as sorted(data, key=lambda x: x["contrast"])
RECURSIVE InsertByContrast(_, _)
InsertByContrast(e, s) ==
    IF s = <<>> THEN <<e>>
    ELSE IF e.contrast < Head(s).contrast THEN <<e>> \o s
         ELSE <<Head(s)>> \o InsertByContrast(e, Tail(s))

RECURSIVE SortByContrast(_)
SortByContrast(s) ==
    IF s = <<>> THEN <<>>
    ELSE InsertByContrast(s[Len(s)], SortByContrast(SubSeq(s, 1, Len(s) - 1)))

InitFull ==
    /\ variant = "later"
    /\ OrchIdle
    /\ cr = Idle
    /\ call = Idle
    /\ settings = NoSettings
    /\ capfile = NoCapture
    /\ latest = AbsentFile
    /\ hist = <<>>
    /\ \/ store \in {AbsentFile, PartialFile(<<>>)}
       \/ \E d \in SeqsUpTo(StoreRecords, MaxRecords) : store = CompleteFile(d)
    /\ \E names \in SUBSET {1, 2, 3} : shots = Screenshots(names)
    /\ gft = [pc |-> "load", data |-> <<>>, rows |-> <<>>, out |-> AbsentFile,
              err |-> "none"]

GftRaise(step) == [gft EXCEPT !.pc = "error", !.err = step]

\* data = json.loads(CLASSIFICATIONS_PATH.read_text()); data = sorted(...)
GftLoad ==
    /\ gft.pc = "load"
    /\ store.state = "complete"
    /\ gft' = [gft EXCEPT !.pc = "first", !.data = SortByContrast(store.data)]
    /\ UNCHANGED <<orch, disk, cr, call>>

\* the store is missing or is no complete JSON document
GftLoadFails ==
    /\ gft.pc = "load"
    /\ store.state # "complete"
    /\ gft' = GftRaise("load")
    /\ UNCHANGED <<orch, disk, cr, call>>

\* first_img = Image.open(COLORS_DIR / f"{data[0]['name']}.png")
GftFirstImage ==
    /\ gft.pc = "first"
    /\ gft.data # <<>>
    /\ gft.data[1].name \in DOMAIN shots
    /\ gft' = [gft EXCEPT !.pc = "rows"]
    /\ UNCHANGED <<orch, disk, cr, call>>

\* data[0] raises IndexError on an empty store; Image.open raises
\* FileNotFoundError when the first record has no screenshot
GftFirstImageFails ==
    /\ gft.pc = "first"
    /\ \/ gft.data = <<>>
       \/ /\ gft.data # <<>>
          /\ gft.data[1].name \notin DOMAIN shots
    /\ gft' = GftRaise("first")
    /\ UNCHANGED <<orch, disk, cr, call>>

\* one iteration of for i, entry in enumerate(data)
GftRow ==
    /\ gft.pc = "rows"
    /\ Len(gft.rows) < Len(gft.data)
    /\ LET entry == gft.data[Len(gft.rows) + 1]
       IN  gft' = [gft EXCEPT !.rows = Append(@,
                      [status |-> entry.status, contrast |-> entry.contrast,
                       name |-> entry.name,
                       image |-> IF entry.name \in DOMAIN shots
                                 THEN shots[entry.name].data
                                 ELSE NoCapture])]
    /\ UNCHANGED <<orch, disk, cr, call>>

\* table.save(OUTPUT_PATH)
GftSave ==
    /\ gft.pc = "rows"
    /\ Len(gft.rows) = Len(gft.data)
    /\ gft' = [gft EXCEPT !.pc = "done", !.out = CompleteFile(gft.rows)]
    /\ UNCHANGED <<orch, disk, cr, call>>

GftSaveFails ==
    /\ gft.pc = "rows"
    /\ Len(gft.rows) = Len(gft.data)
    /\ gft' = GftRaise("save")
    /\ UNCHANGED <<orch, disk, cr, call>>

NextFull ==
    \/ GftLoad
    \/ GftLoadFails
    \/ GftFirstImage
    \/ GftFirstImageFails
    \/ GftRow
    \/ GftSave
    \/ GftSaveFails

SpecFull == InitFull /\ [][NextFull]_vars

\* the rows are the records of the store, each once
RowsAreRecords(rows, data) ==
    /\ Len(rows) = Len(data)
    /\ \A r \in {[name |-> data[i].name, contrast |-> data[i].contrast] :
                    i \in DOMAIN data} :
          Cardinality({i \in DOMAIN rows :
                          rows[i].name = r.name /\ rows[i].contrast = r.contrast})
            = Cardinality({i \in DOMAIN data :
                          data[i].name = r.name /\ data[i].contrast = r.contrast})

\* C20: run on a readable store that is not empty, generate_full_table
\* ends, unless the table cannot be written, with a table of exactly one
\* row per record, in non-decreasing order of contrast, also when
\* screenshots of records are missing.
C20_OneRowPerRecord ==
    (store.state = "complete" /\ store.data # <<>>) =>
       /\ gft.pc = "error" => gft.err = "save"
       /\ gft.pc = "done" =>
             /\ RowsAreRecords(gft.out.data, store.data)
             /\ \A i, j \in DOMAIN gft.out.data :
                   i < j => gft.out.data[i].contrast <= gft.out.data[j].contrast

(***************************************************************************)
(* _label_components, the flood fill used when scipy is missing, on a mask *)
(* of MaskRows rows and three columns.  A pixel is <<y, x>>, a mask the    *)
(* set of its true pixels.                                                 *)
(***************************************************************************)
MaskColumns == 0..2

MaskPixels == (0..(MaskRows - 1)) \X MaskColumns

\* for y in range(h): for x in range(w)
RasterOrder ==
    [i \in 1..(MaskRows * Cardinality(MaskColumns)) |->
        <<(i - 1) \div Cardinality(MaskColumns), (i - 1) % Cardinality(MaskColumns)>>]

\* mutant: the diagonal neighbours are visited too
Neighbours8(p) ==
    << <<p[1] - 1, p[2]>>, <<p[1] + 1, p[2]>>, <<p[1], p[2] - 1>>,
       <<p[1], p[2] + 1>>, <<p[1] - 1, p[2] - 1>>, <<p[1] + 1, p[2] + 1>>,
       <<p[1] - 1, p[2] + 1>>, <<p[1] + 1, p[2] - 1>> >>

\* ((cy - 1, cx), (cy + 1, cx), (cy, cx - 1), (cy, cx + 1))
Neighbours(p) ==
    << <<p[1] - 1, p[2]>>, <<p[1] + 1, p[2]>>, <<p[1], p[2] - 1>>,
       <<p[1], p[2] + 1>> >>

\* for ny, nx in (...): if 0 <= ny < h and 0 <= nx < w and mask[ny, nx]
\* and labels[ny, nx] == 0: labels[ny, nx] = cur; stack.append((ny, nx))
RECURSIVE Visit(_, _, _, _, _)
Visit(st, nbrs, i, cur, mask) ==
    IF i > Len(nbrs) THEN st
    ELSE LET q == nbrs[i]
         IN  IF q \in MaskPixels /\ q \in mask /\ st.labels[q] = 0
             THEN Visit([labels |-> [st.labels EXCEPT ![q] = cur],
                         stack |-> Append(st.stack, q)], nbrs, i + 1, cur, mask)
             ELSE Visit(st, nbrs, i + 1, cur, mask)

\* while stack: cy, cx = stack.pop(); ...
RECURSIVE Fill(_, _, _)
Fill(st, cur, mask) ==
    IF st.stack = <<>> THEN st.labels
    ELSE LET p == st.stack[Len(st.stack)]
             popped == [st EXCEPT !.stack = SubSeq(@, 1, Len(@) - 1)]
         IN  Fill(Visit(popped, Neighbours(p), 1, cur, mask), cur, mask)

\* the raster scan: a true pixel without a label starts component cur + 1
RECURSIVE Scan(_, _, _, _)
Scan(labels, cur, i, mask) ==
    IF i > Len(RasterOrder) THEN [labels |-> labels, n |-> cur]
    ELSE LET p == RasterOrder[i]
         IN  IF p \notin mask \/ labels[p] # 0
             THEN Scan(labels, cur, i + 1, mask)
             ELSE Scan(Fill([labels |-> [labels EXCEPT ![p] = cur + 1],
                             stack |-> <<p>>], cur + 1, mask),
                       cur + 1, i + 1, mask)

\* labels = np.zeros((h, w)); cur = 0; ...; return labels, cur
label_components_fill(mask) == Scan([p \in MaskPixels |-> 0], 0, 1, mask)

InitLabel ==
    /\ variant = "later"
    /\ OrchIdle
    /\ DiskIdle
    /\ cr = Idle
    /\ gft = Idle
    /\ \E mask \in SUBSET MaskPixels :
          call = [pc |-> "call", fn |-> "_label_components", mask |-> mask,
                  out |-> [labels |-> <<>>, n |-> 0]]

LabelComponents ==
    /\ call.pc = "call"
    /\ call.fn = "_label_components"
    /\ call' = [call EXCEPT !.pc = "returned",
                  !.out = label_components_fill(call.mask)]
    /\ UNCHANGED <<orch, disk, cr, gft>>

NextLabel == LabelComponents

SpecLabel == InitLabel /\ [][NextLabel]_vars

\* horizontally or vertically adjacent
Adjacent4(p, q) ==
    \/ p[1] = q[1] /\ (p[2] = q[2] + 1 \/ q[2] = p[2] + 1)
    \/ p[2] = q[2] /\ (p[1] = q[1] + 1 \/ q[1] = p[1] + 1)

\* the true pixels a path of adjacent true pixels joins to the pixels of S
RECURSIVE Joined(_, _)
Joined(S, mask) ==
    LET T == S \cup {q \in mask : \E p \in S : Adjacent4(p, q)}
    IN  IF T = S THEN S ELSE Joined(T, mask)

\* C21: the flood fill gives every false pixel the label 0 and every true
\* pixel a label in 1..n, uses each of the n labels, and gives two true
\* pixels the same label exactly when a path of horizontally or vertically
\* adjacent true pixels joins them.
C21_LabelsAreComponents ==
    call.pc = "returned" =>
       LET labels == call.out.labels
           n == call.out.n
       IN  /\ \A p \in MaskPixels \ call.mask : labels[p] = 0
           /\ \A p \in call.mask : labels[p] \in 1..n
           /\ \A k \in 1..n : \E p \in call.mask : labels[p] = k
           /\ \A p, q \in call.mask :
                 (labels[p] = labels[q]) <=> (q \in Joined({p}, call.mask))

\* two pixels that touch only at a corner, and a third joined to the second
C21_Witness ==
    /\ call.pc = "returned"
    /\ call.mask = {<<0, 0>>, <<1, 1>>, <<1, 2>>}
    /\ call.out.n = 2
    /\ call.out.labels[<<0, 0>>] = 1
    /\ call.out.labels[<<1, 1>>] = 2
    /\ call.out.labels[<<1, 2>>] = 2

(***************************************************************************)
(* estimate_bg_and_text on pixel arrays with c channels.  A pixel is a     *)
(* tuple of c values; in an RGBA array the fourth is alpha.                *)
(***************************************************************************)
\* a pixel with c channels: the colour, cut or filled up with alpha
PixelOf(rgb, alpha, c) ==
    [i \in 1..c |-> IF i <= 3 THEN rgb[i] ELSE alpha]

\* the array of a region: ground and patch pixels with c channels
ArrayOf(rg, alphas, c) ==
    [h |-> rg.h, w |-> rg.w, ph |-> rg.ph, pw |-> rg.pw, c |-> c,
     bgpix |-> PixelOf(rg.bgpix, alphas.bg, c),
     fgpix |-> PixelOf(rg.fgpix, alphas.fg, c)]

\* mutant: the last three channels are kept
ExtractGBA(arr) ==
    [arr EXCEPT !.bgpix = SubSeq(@, 2, 4), !.fgpix = SubSeq(@, 2, 4)]

\* row_rgb = row_rgba[:, :, :3] if c == 4; row_rgb = row_rgba if c == 3
ExtractRGB(arr) ==
    [arr EXCEPT !.bgpix = SubSeq(@, 1, 3), !.fgpix = SubSeq(@, 1, 3)]

\* estimate_bg_and_text on an array: raise ValueError unless c is 3 or 4
estimate_array(arr) ==
    IF arr.c \notin {3, 4}
    THEN [raised |-> TRUE, results |-> {}]
    ELSE [raised |-> FALSE,
          results |-> estimate_bg_and_text(
                         IF arr.c = 4 THEN ExtractRGB(arr) ELSE arr)]

AlphaRegions ==
    UNION {RegionsOfSize(36, 154), RegionsOfSize(12, 40), RegionsOfSize(4, 10)}

Alphas == [bg : {0, 128, 255}, fg : {0, 255}]

InitAlpha ==
    /\ variant = "later"
    /\ OrchIdle
    /\ DiskIdle
    /\ cr = Idle
    /\ gft = Idle
    /\ \E rg \in {r \in AlphaRegions : r.mode = "RGBA"} :
          \/ \E a \in Alphas, b \in Alphas :
                call = [pc |-> "call", fn |-> "alpha", img |-> rg, a |-> a,
                        b |-> b, c |-> 4, out |-> <<>>]
          \/ \E a \in Alphas, c \in 1..5 :
                call = [pc |-> "call", fn |-> "channels", img |-> rg, a |-> a,
                        b |-> a, c |-> c, out |-> <<>>]

\* the RGB-only region and two RGBA regions with its colours
EstimateAlpha ==
    /\ call.pc = "call"
    /\ call.fn = "alpha"
    /\ call' = [call EXCEPT !.pc = "returned",
                  !.out = [rgb |-> estimate_array(ArrayOf(call.img, call.a, 3)),
                           a |-> estimate_array(ArrayOf(call.img, call.a, 4)),
                           b |-> estimate_array(ArrayOf(call.img, call.b, 4))]]
    /\ UNCHANGED <<orch, disk, cr, gft>>

\* an array with c channels
EstimateChannels ==
    /\ call.pc = "call"
    /\ call.fn = "channels"
    /\ LET r == estimate_array(ArrayOf(call.img, call.a, call.c))
       IN  call' = [call EXCEPT !.pc = IF r.raised THEN "raised" ELSE "returned",
                                !.out = [rgb |-> r, a |-> r, b |-> r]]
    /\ UNCHANGED <<orch, disk, cr, gft>>

NextAlpha ==
    \/ EstimateAlpha
    \/ EstimateChannels

SpecAlpha == InitAlpha /\ [][NextAlpha]_vars

\* C22: two RGBA regions with the same colours and different alpha give
\* the same (background, foreground) as each other and as the RGB-only
\* region, and an array whose channel count is neither 3 nor 4 is rejected
\* with an error.
C22_AlphaIgnored ==
    /\ (call.fn = "alpha" /\ call.pc = "returned") =>
          /\ ~call.out.rgb.raised
          /\ call.out.a = call.out.rgb
          /\ call.out.b = call.out.rgb
    /\ (call.fn = "channels" /\ call.pc # "call") =>
          ((call.pc = "raised") <=> (call.c \notin {3, 4}))

\* opaque ground and transparent patch against the reverse
C22_Witness ==
    /\ call.fn = "alpha"
    /\ call.pc = "returned"
    /\ call.a = [bg |-> 255, fg |-> 0]
    /\ call.b = [bg |-> 0, fg |-> 255]
    /\ call.img.h = 36
    /\ call.img.ph = 10
    /\ \E e \in call.out.a.results :
          /\ e.bg = Twice(call.img.bgpix)
          /\ e.text = Twice(call.img.fgpix)

(***************************************************************************)
(* The classification loader of color_picker/base.py.  One process calls   *)
(* load_classifications, get_color_status and load_themes_with_status      *)
(* while check_all_themes runs of other processes rewrite the files.       *)
(* store is data/classifications.json of the repository layout, call.pkg   *)
(* the file bundled with the package, call.other the file under a          *)
(* base_path the caller passes.  call.cache is _classifications_cache.     *)
(***************************************************************************)
\* most calls of the loader functions in one process
MaxLoads == 3

\* the contrast check_all_themes measured for theme i in run r
RunContrast(i, r) == <<2300, 1700, 1200, 1000, 2000, 1500>>[((i + r - 1) % 6) + 1]

\* the store check_all_themes (later variant) leaves after a run r over the
\* first n themes
StoreOfRun(dup, n, r) ==
    [i \in 1..n |->
        [category |-> Theme(dup, i).category, name |-> Theme(dup, i).name,
         hex |-> Theme(dup, i).hex, contrast |-> RunContrast(i, r),
         status |-> get_status(RunContrast(i, r)), bg_rgb |-> <<0, 130, 0>>,
         text_rgb |-> <<255, 255, 255>>]]

StoreFiles ==
    {AbsentFile} \cup
    {CompleteFile(StoreOfRun(dup, n, r)) : dup \in BOOLEAN, n \in {0, 4}, r \in {0, 1}}

PkgFiles == {AbsentFile, CompleteFile(StoreOfRun(FALSE, 2, 2))}

OtherFiles == {AbsentFile, CompleteFile(StoreOfRun(TRUE, 4, 3))}

BasePaths == {"None", "other"}

\* _classifications_cache = None
NoCache == [set |-> FALSE, map |-> <<>>]

\* get_classifications_path: the file the path names
get_classifications_path(base_path, pkg, repo, other) ==
    IF base_path # "None" THEN other
    ELSE IF pkg.state # "absent" THEN pkg
    ELSE repo

\* {entry["name"]: entry for entry in data}: a later entry replaces an
\* earlier one of the same name
IndexByName(data) ==
    [nm \in {data[i].name : i \in DOMAIN data} |->
        data[CHOOSE i \in DOMAIN data :
                /\ data[i].name = nm
                /\ \A j \in DOMAIN data : data[j].name = nm => j <= i]]

\* mutant: the file is read on every call
load_classifications_uncached(cache, file) ==
    IF file.state = "absent"
    THEN [cache |-> cache, out |-> <<>>, read |-> FALSE]
    ELSE [cache |-> [set |-> TRUE, map |-> IndexByName(file.data)],
          out |-> IndexByName(file.data), read |-> TRUE]

\* mutant: the empty mapping of a missing file is cached
load_classifications_caching_empty(cache, file) ==
    IF cache.set
    THEN [cache |-> cache, out |-> cache.map, read |-> FALSE]
    ELSE IF file.state = "absent"
    THEN [cache |-> [set |-> TRUE, map |-> <<>>], out |-> <<>>, read |-> FALSE]
    ELSE [cache |-> [set |-> TRUE, map |-> IndexByName(file.data)],
          out |-> IndexByName(file.data), read |-> TRUE]

\* load_classifications: the cache after the call, the mapping returned and
\* whether the file was opened
load_classifications(cache, file) ==
    IF cache.set
    THEN [cache |-> cache, out |-> cache.map, read |-> FALSE]
    ELSE IF file.state = "absent"
    THEN [cache |-> cache, out |-> <<>>, read |-> FALSE]
    ELSE [cache |-> [set |-> TRUE, map |-> IndexByName(file.data)],
          out |-> IndexByName(file.data), read |-> TRUE]

\* get_color_status, given the mapping load_classifications returned
get_color_status(name, classifications) ==
    IF name \in DOMAIN classifications
    THEN IF "status" \in DOMAIN classifications[name]
         THEN classifications[name].status
         ELSE "UNKNOWN"
    ELSE "UNKNOWN"

\* load_themes_with_status, given the themes of colors.json and the mapping
\* load_classifications returned; theme i is result[category][name]
load_themes_with_status(ts, classifications) ==
    [i \in DOMAIN ts |->
        IF ts[i].name \in DOMAIN classifications
        THEN [hex |-> ts[i].hex,
              status |-> classifications[ts[i].name].status,
              contrast |-> classifications[ts[i].name].contrast]
        ELSE [hex |-> ts[i].hex, status |-> "UNKNOWN", contrast |-> 0]]

InitLoad ==
    /\ variant = "later"
    /\ OrchIdle
    /\ cr = Idle
    /\ gft = Idle
    /\ settings = NoSettings
    /\ capfile = NoCapture
    /\ shots = <<>>
    /\ latest = AbsentFile
    /\ hist = <<>>
    /\ store \in StoreFiles
    /\ \E pkg \in PkgFiles, other \in OtherFiles, dup \in BOOLEAN :
          call = [pc |-> "ready", fn |-> "none", base |-> "None", name |-> 0,
                  n |-> 0, cache |-> NoCache, pkg |-> pkg, other |-> other,
                  colors |-> Enumeration(dup, 4),
                  file |-> AbsentFile, map |-> <<>>, read |-> FALSE,
                  out |-> <<>>, loaded |-> NoCache, data |-> <<>>,
                  since |-> 0, changed |-> FALSE, missed |-> FALSE]

loadframe == <<orch, settings, capfile, shots, latest, hist, cr, gft>>

\* one call of fn with base_path base: the inner load_classifications call
\* and the history of the process (loaded is the mapping of the first
\* successful load, data the file content it was built from, since the
\* number of calls after it, changed whether a file was written after it,
\* missed whether a call found the cache unset and no file)
Loaded(fn, base, name, out_of) ==
    LET f == get_classifications_path(base, call.pkg, store, call.other)
        r == load_classifications(call.cache, f)
    IN  [call EXCEPT !.fn = fn, !.base = base, !.name = name,
                     !.n = call.n + 1, !.cache = r.cache, !.file = f,
                     !.map = r.out, !.read = r.read,
                     !.out = out_of[1],
                     !.loaded = IF ~call.loaded.set /\ r.read
                                THEN [set |-> TRUE, map |-> r.out]
                                ELSE call.loaded,
                     !.data = IF ~call.loaded.set /\ r.read THEN f.data
                              ELSE call.data,
                     !.since = IF call.loaded.set THEN call.since + 1
                               ELSE call.since,
                     !.missed = call.missed \/
                                   (~call.cache.set /\ f.state = "absent")]

LoadClassifications ==
    /\ call.pc = "ready"
    /\ call.n < MaxLoads
    /\ \E base \in BasePaths :
          LET f == get_classifications_path(base, call.pkg, store, call.other)
              r == load_classifications(call.cache, f)
          IN  call' = Loaded("load_classifications", base, 0, <<r.out>>)
    /\ UNCHANGED <<loadframe, store>>

GetColorStatus ==
    /\ call.pc = "ready"
    /\ call.n < MaxLoads
    /\ \E base \in BasePaths, name \in {1, 3, 5} :
          LET f == get_classifications_path(base, call.pkg, store, call.other)
              r == load_classifications(call.cache, f)
          IN  call' = Loaded("get_color_status", base, name,
                             <<get_color_status(name, r.out)>>)
    /\ UNCHANGED <<loadframe, store>>

LoadThemesWithStatus ==
    /\ call.pc = "ready"
    /\ call.n < MaxLoads
    /\ \E base \in BasePaths :
          LET f == get_classifications_path(base, call.pkg, store, call.other)
              r == load_classifications(call.cache, f)
          IN  call' = Loaded("load_themes_with_status", base, 0,
                             <<load_themes_with_status(call.colors, r.out)>>)
    /\ UNCHANGED <<loadframe, store>>

\* a check_all_themes run of another process rewrites the store
RewriteStore ==
    /\ call.pc = "ready"
    /\ \E f \in StoreFiles \ {AbsentFile, store} : store' = f
    /\ call' = [call EXCEPT !.changed = call.loaded.set]
    /\ UNCHANGED loadframe

\* the store is removed, or a file appears or disappears at base_path
OtherFileChanges ==
    /\ call.pc = "ready"
    /\ \/ /\ store # AbsentFile
          /\ store' = AbsentFile
          /\ call' = [call EXCEPT !.changed = call.loaded.set]
       \/ /\ \E f \in OtherFiles \ {call.other} :
                call' = [call EXCEPT !.other = f, !.changed = call.loaded.set]
          /\ UNCHANGED store
    /\ UNCHANGED loadframe

NextLoad ==
    \/ LoadClassifications
    \/ GetColorStatus
    \/ LoadThemesWithStatus
    \/ RewriteStore
    \/ OtherFileChanges

SpecLoad == InitLoad /\ [][NextLoad]_vars

\* C23: once load_classifications has loaded a file, every later call
\* returns the mapping of that first load and opens no file, whatever
\* base_path it is given and whatever was written in between.
C23_LoadOnce ==
    (call.pc = "ready" /\ call.since > 0) =>
        /\ call.map = call.loaded.map
        /\ ~call.read

\* a call with another base_path after the store was rewritten with other
\* records
C23_Witness ==
    /\ call.pc = "ready"
    /\ call.since > 0
    /\ call.changed
    /\ call.file.state = "complete"
    /\ call.file.data # call.data
    /\ call.base = "other"
    /\ call.map = call.loaded.map

\* C24: for every record of the store that was loaded, looking up the
\* record's name in the mapping load_classifications returned gives that
\* record.
C24_EveryRecordFound ==
    (call.pc = "ready" /\ call.loaded.set) =>
        \A i \in DOMAIN call.data :
            /\ call.data[i].name \in DOMAIN call.loaded.map
            /\ call.loaded.map[call.data[i].name] = call.data[i]

\* the classifications file of base_path does not exist
Missing(base) ==
    IF base = "None"
    THEN call.pkg.state = "absent" /\ store.state = "absent"
    ELSE call.other.state = "absent"

NamesIn(data) == {data[i].name : i \in DOMAIN data}

\* C29: a call made while the cache is unset and the classifications file
\* does not exist returns the empty mapping, leaves the cache unset and
\* makes get_color_status answer "UNKNOWN"; a call made while the cache is
\* unset and the file exists reads the file and returns a mapping of the
\* names in it to records of the file.
C29_MissingFileNotCached ==
    [][(call.pc = "ready" /\ call'.n = call.n + 1 /\ ~call.cache.set) =>
          IF Missing(call'.base)
          THEN /\ call'.map = <<>>
               /\ ~call'.cache.set
               /\ ~call'.read
               /\ (call'.fn = "get_color_status" => call'.out = "UNKNOWN")
          ELSE /\ call'.read
               /\ DOMAIN call'.map = NamesIn(call'.file.data)
               /\ \A nm \in DOMAIN call'.map :
                     \E i \in DOMAIN call'.file.data :
                        /\ call'.file.data[i].name = nm
                        /\ call'.map[nm] = call'.file.data[i]]_vars

\* get_color_status answers from the file after an earlier call found none
C29_Witness ==
    /\ call.pc = "ready"
    /\ call.missed
    /\ call.read
    /\ call.fn = "get_color_status"
    /\ call.name \in DOMAIN call.map
    /\ call.out = call.map[call.name].status

(***************************************************************************)
(* generate_bright_version (color_picker/base.py).  A colour is given by   *)
(* its largest and smallest channel: rgb_to_hls takes lightness and        *)
(* saturation from these two, and hls_to_rgb gives m2 to the largest and   *)
(* m1 to the smallest channel of its result whatever the hue, which passes *)
(* through unchanged.  Lightness is in units of 1/51000 (a percentage      *)
(* times 510), saturation a fraction num/den.                              *)
(***************************************************************************)
BrightInputs == {c \in [max : 0..255, min : 0..255] : c.min <= c.max}

\* HSL lightness of a colour, (maxc + minc) / 2, in units of 1/510
Lightness(c) == c.max + c.min

\* hex_to_hsl: colorsys.rgb_to_hls on the channels over 255
hex_to_hsl(c) ==
    LET sum  == c.max + c.min
        diff == c.max - c.min
    IN  [l   |-> 100 * sum,
         num |-> diff,
         den |-> IF diff = 0 THEN 1
                 ELSE IF sum <= 255 THEN sum ELSE 510 - sum]

\* int(x * 255) for x * 255 = n / d.  Where n / d is a whole number k other
\* than 0 and 255, k / 255 has no binary representation, and the float
\* product lies just below or just above k
IntTimes255(n, d) ==
    IF n % d = 0 /\ n \div d > 0 /\ n \div d < 255
    THEN {(n \div d) - 1, n \div d}
    ELSE {n \div d}

\* hsl_to_hex: colorsys.hls_to_rgb, then int(r * 255) on each channel
hsl_to_hex(num, den, l) ==
    LET m2n == IF l <= 25500 THEN l * (den + num)
               ELSE l * den + num * (51000 - l)
        m1n == 2 * l * den - m2n
    IN  {[max |-> a, min |-> b] :
            a \in IntTimes255(m2n, 200 * den), b \in IntTimes255(m1n, 200 * den)}

\* mutant: the lightness is capped at 100 percent only
generate_bright_version_uncapped(c) ==
    LET hsl == hex_to_hsl(c)
        lightness_boost == Max2(7650, 17850 - (33 * hsl.l) \div 100)
        new_l == Min2(51000, hsl.l + lightness_boost)
    IN  hsl_to_hex(hsl.num, hsl.den, new_l)

\* generate_bright_version with lightness_boost None
generate_bright_version(c) ==
    LET hsl == hex_to_hsl(c)
        lightness_boost == Max2(7650, 17850 - (33 * hsl.l) \div 100)
        new_l == Min2(38250, hsl.l + lightness_boost)
    IN  hsl_to_hex(hsl.num, hsl.den, new_l)

InitBright ==
    /\ variant = "later"
    /\ OrchIdle
    /\ DiskIdle
    /\ cr = Idle
    /\ gft = Idle
    /\ \E c \in BrightInputs :
          call = [pc |-> "call", fn |-> "generate_bright_version",
                  hex_color |-> c, out |-> c]

GenerateBrightVersion ==
    /\ call.pc = "call"
    /\ call.fn = "generate_bright_version"
    /\ \E o \in generate_bright_version(call.hex_color) :
          call' = [call EXCEPT !.pc = "returned", !.out = o]
    /\ UNCHANGED <<orch, disk, cr, gft>>

NextBright == GenerateBrightVersion

SpecBright == InitBright /\ [][NextBright]_vars

\* C25: the lightness of the colour generate_bright_version returns is not
\* lower than the lightness of its input and is at most 75 percent.
C25_BrighterUpTo75 ==
    (call.pc = "returned" /\ call.fn = "generate_bright_version") =>
        /\ Lightness(call.out) >= Lightness(call.hex_color)
        /\ 2 * Lightness(call.out) <= 765

\* C25 as it holds: the result is at most 75 percent light, and it is not
\* darker than an input that is itself at most 75 percent light.
C25_BrighterBelowCap ==
    (call.pc = "returned" /\ call.fn = "generate_bright_version") =>
        /\ 2 * Lightness(call.out) <= 765
        /\ (2 * Lightness(call.hex_color) <= 765 =>
               Lightness(call.out) >= Lightness(call.hex_color))

\* a colour below the cap that is brightened up to the cap
C25_Witness ==
    /\ call.pc = "returned"
    /\ call.fn = "generate_bright_version"
    /\ call.hex_color.max # call.hex_color.min
    /\ 2 * Lightness(call.hex_color) <= 765
    /\ Lightness(call.out) > Lightness(call.hex_color)
    /\ Lightness(call.out) = 382

(***************************************************************************)
(* C26 to C28 are about check_all_themes, the specification Spec.          *)
(***************************************************************************)
\* C26: in the later variant every record of the store (and of the result
\* list it is written from) has status = get_status(contrast), and every
\* row of the table just built shows the status of the record it was built
\* from.
C26_StatusOfContrast ==
    (variant = "later" /\ pc # "idle") =>
        /\ \A i \in DOMAIN results :
              results[i].status = get_status(results[i].contrast)
        /\ \A i \in DOMAIN store.data :
              store.data[i].status = get_status(store.data[i].contrast)
        /\ (pc \in {"save_table", "save_snapshot"}) =>
              /\ Len(table) = Len(LastBatch(results))
              /\ \A i \in DOMAIN table :
                    /\ table[i].name = LastBatch(results)[i].name
                    /\ table[i].contrast = LastBatch(results)[i].contrast
                    /\ table[i].status = LastBatch(results)[i].status

\* a flush whose table shows a GOOD and a BAD record
C26_Witness ==
    /\ variant = "later"
    /\ pc = "save_snapshot"
    /\ store = CompleteFile(results)
    /\ \E i \in DOMAIN table : table[i].status = "GOOD"
    /\ \E i \in DOMAIN table : table[i].status = "BAD"

\* C27: at a flush the result list and the image list both hold count
\* entries, and the table has min(count, BATCH_SIZE) rows, row i made of the
\* i-th of the most recent records and of the capture taken while that
\* record's theme was applied.
C27_RowsPairRecordAndCapture ==
    (pc \in {"save_table", "save_snapshot"}) =>
        /\ Len(results) = count
        /\ Len(images) = count
        /\ Len(table) = Min2(count, BATCH_SIZE)
        /\ \A i \in DOMAIN table :
              LET k == count - Len(table) + i
              IN  /\ table[i].name = results[k].name
                  /\ table[i].contrast = results[k].contrast
                  /\ table[i].image = images[k].image
                  /\ images[k].shows = themes[k].hex
                  /\ results[k].hex = themes[k].hex

\* the flush after the sixth theme: five rows, the first for theme 2
C27_Witness ==
    /\ pc = "save_snapshot"
    /\ count = BATCH_SIZE + 1
    /\ Len(table) = BATCH_SIZE
    /\ table[1].name = themes[2].name
    /\ table[1].image = images[2].image
    /\ images[1].image # images[2].image

(***************************************************************************)
(* Termination of check_all_themes: every step of the loop is taken in     *)
(* turn, so a run does not stop while a step is possible.  The runs are    *)
(* those over no theme, one theme, one full batch and one theme more than  *)
(* a full batch.                                                           *)
(***************************************************************************)
RunLengths == {0, 1, BATCH_SIZE, BATCH_SIZE + 1}

InitRun ==
    /\ Init
    /\ \E n \in RunLengths : themes = Enumeration(FALSE, n)

SpecRun == InitRun /\ [][Next]_vars /\ WF_vars(Next)

\* what a finished run over one or more themes leaves: the flush of the
\* last theme
FlushedAtEnd ==
    /\ Len(results) = total
    /\ Len(images) = total
    /\ (variant = "later") => store = CompleteFile(results)
    /\ Len(table) = Min2(total, BATCH_SIZE)
    /\ table = build_table_image(LastBatch(results), LastBatch(images))
    /\ latest = CompleteFile(table)
    /\ total \in DOMAIN hist
    /\ hist[total] = CompleteFile(table)

\* what a run over no theme leaves: nothing written, nothing built
NothingFlushed ==
    /\ results = <<>>
    /\ table = <<>>
    /\ calls = NoCalls
    /\ store \in {AbsentFile, CompleteFile(<<OldRecord>>)}
    /\ latest \in {AbsentFile, CompleteFile(OldTable)}
    /\ DOMAIN hist \subseteq {BATCH_SIZE}
    /\ \A k \in DOMAIN hist : hist[k] = CompleteFile(OldTable)

\* C28: a run comes to an end; when it ends without a raise and without
\* being killed, it has flushed at its last theme (so the store holds all n
\* records) if n >= 1, and has flushed nothing if the enumeration is empty;
\* the step that ends the loop comes straight after that flush.
C28_EndsWithFlush ==
    /\ <>(pc \in {"done", "error", "killed"})
    /\ [](pc = "done" => IF total >= 1 THEN FlushedAtEnd ELSE NothingFlushed)
    /\ [][(pc' = "loop" /\ count = total) => pc = "save_snapshot"]_vars

\* a finished run over a number of themes that is no multiple of BATCH_SIZE
C28_Witness ==
    /\ pc = "done"
    /\ variant = "later"
    /\ total = BATCH_SIZE + 1
    /\ Len(store.data) = total
    /\ store.state = "complete"

(***************************************************************************)
(* The picker (color_picker/tui.py).  call.items are the list items in     *)
(* the order compose yields them, call.highlighted the index of the        *)
(* list's highlighted child (0: None), call.status the status line.        *)
(* call.last is the theme highlighted most recently (0: none yet),         *)
(* call.event the handler that ran last, and call.tick changes with every  *)
(* event.                                                                  *)
(***************************************************************************)
\* mutant: navigating only updates the preview
on_list_view_highlighted_preview(previous, items, i) == previous

\* on_list_view_highlighted: the settings file after the handler; i = 0 is
\* event.item None
on_list_view_highlighted(previous, items, i) ==
    IF i = 0 THEN previous
    ELSE write_theme(previous, items[i].hex)

\* action_apply_theme: the settings file and the status line after it
action_apply_theme(previous, items, i) ==
    IF i = 0
    THEN [settings |-> previous, status |-> "No theme selected!"]
    ELSE [settings |-> write_theme(previous, items[i].hex),
          status |-> "Applied"]

InitPicker ==
    /\ variant = "later"
    /\ OrchIdle
    /\ cr = Idle
    /\ gft = Idle
    /\ capfile = NoCapture
    /\ shots = <<>>
    /\ store = AbsentFile
    /\ latest = AbsentFile
    /\ hist = <<>>
    /\ settings \in PriorSettings
    /\ \E dup \in BOOLEAN, n \in 0..MaxThemes :
          call = [pc |-> "constructed", fn |-> "picker",
                  items |-> Enumeration(dup, n), highlighted |-> 0,
                  status |-> "", last |-> 0, event |-> "none", tick |-> 0]

pickerframe ==
    <<orch, capfile, shots, store, latest, hist, cr, gft>>

\* on_mount: the list is focused and the first preview shown
Mount ==
    /\ call.pc = "constructed"
    /\ call' = [call EXCEPT !.pc = "running", !.event = "mount",
                  !.status = IF call.items # <<>>
                             THEN "Use arrows to browse, Enter to apply"
                             ELSE call.status]
    /\ UNCHANGED <<pickerframe, settings>>

\* the highlight moves to item i (or to none) and the list posts Highlighted
ListViewHighlighted ==
    /\ call.pc = "running"
    /\ \E i \in 0..Len(call.items) :
          /\ i # call.highlighted
          /\ settings' = on_list_view_highlighted(settings, call.items, i)
          /\ call' = [call EXCEPT !.highlighted = i,
                        !.last = IF i = 0 THEN call.last ELSE i,
                        !.event = "highlighted", !.tick = 1 - call.tick]
    /\ UNCHANGED pickerframe

\* the open() or json.dump of write_theme raises in the handler: the
\* exception ends the application
PickerWriteFails ==
    /\ call.pc = "running"
    /\ \/ \E i \in 1..Len(call.items) :
             /\ i # call.highlighted
             /\ call' = [call EXCEPT !.pc = "crashed", !.highlighted = i,
                           !.last = i, !.event = "highlighted",
                           !.tick = 1 - call.tick]
       \/ /\ call.highlighted # 0
          /\ call' = [call EXCEPT !.pc = "crashed", !.event = "apply",
                        !.tick = 1 - call.tick]
    /\ settings' \in {settings, NoSettings}
    /\ UNCHANGED pickerframe

\* Enter
ActionApplyTheme ==
    /\ call.pc = "running"
    /\ LET r == action_apply_theme(settings, call.items, call.highlighted)
       IN  /\ settings' = r.settings
           /\ call' = [call EXCEPT !.status = r.status, !.event = "apply",
                         !.tick = 1 - call.tick]
    /\ UNCHANGED pickerframe

NextPicker ==
    \/ Mount
    \/ ListViewHighlighted
    \/ PickerWriteFails
    \/ ActionApplyTheme

SpecPicker == InitPicker /\ [][NextPicker]_vars

\* C30: while the picker runs, once a theme has been highlighted the
\* settings file holds the customizations of the theme highlighted most
\* recently; an apply event with no highlighted item leaves the settings
\* file and the highlight as they are and sets the status message.
C30_SettingsFollowHighlight ==
    /\ [](call.pc = "running" /\ call.fn = "picker" /\ call.last # 0 =>
             settings = Customizations(call.items[call.last].hex))
    /\ [][(call.pc = "running" /\ call.fn = "picker" /\ call'.tick # call.tick
             /\ call'.event = "apply" /\ call.highlighted = 0) =>
              /\ settings' = settings
              /\ call'.status = "No theme selected!"
              /\ call' = [call EXCEPT !.status = call'.status,
                            !.event = "apply", !.tick = call'.tick]]_vars

\* an apply after the highlight moved from one theme to another and was
\* then cleared
C30_Witness ==
    /\ call.pc = "running"
    /\ call.fn = "picker"
    /\ call.event = "apply"
    /\ call.highlighted = 0
    /\ call.last = 2
    /\ call.status = "No theme selected!"
    /\ settings = Customizations(call.items[2].hex)
    /\ settings # Customizations(call.items[1].hex)

=============================================================================
